---------------------------- MODULE Spec2Model ----------------------------
(***************************************************************************)
(* Model of the SEO agent's deterministic core: the cross-linking service  *)
(* (services/cross_linker.py) and the keyword qualification pipeline       *)
(* (services/keyword_research.py, models/keyword.py).                      *)
(*                                                                         *)
(* Python strings are sequences of one-character strings, so that regular  *)
(* expression matching, case folding, punctuation stripping and word       *)
(* splitting are computed character by character as the code does.         *)
(***************************************************************************)
EXTENDS Integers, Sequences, FiniteSets, TLC

VARIABLES
    linker,          \* CrossLinkerService: links_per_1k_words (tenths), min_similarity_score
    article,         \* Article: metadata fields, content, internal_links
    existing_posts,  \* the corpus handed to add_cross_links
    calls,           \* number of add_cross_links calls made on the article
    last,            \* record of the last add_cross_links call (history)
    suggest,         \* record of the suggest_link_opportunities call (history)
    kw_service,      \* KeywordResearchService: min_volume, max_kd
    keywords,        \* the list[Keyword] the caller holds
    kw_call,         \* the last KeywordResearchService call: op, arguments, result
    categories,      \* the list[Category] stored in the categories file
    cat_call,        \* the last CategoryManager call and the one before it (history)
    cat_calls,       \* number of CategoryManager calls made
    dfs_call,        \* the last DataForSEOClient call: request sent, reply, outcome
    text_call,       \* the last truncate_text call: arguments and result
    anchor_call,     \* the last _generate_anchor_candidates call: title and result
    planner_call,    \* the last ContentPlanner.select_best_topic call
    cache_file,      \* what the blog cache file holds on disk
    now,             \* datetime.now(), in half hours
    blog_call        \* the last BlogApiClient.get_posts call (history)

cross_link_vars == <<linker, article, existing_posts, calls, last, suggest>>
keyword_vars == <<kw_service, keywords, kw_call>>
category_vars == <<categories, cat_call, cat_calls>>
blog_vars == <<cache_file, now, blog_call>>
vars == <<linker, article, existing_posts, calls, last, suggest,
          kw_service, keywords, kw_call, categories, cat_call, cat_calls,
          dfs_call, text_call, anchor_call, planner_call, cache_file, now,
          blog_call>>

(***************************************************************************)
(* Characters and str primitives                                           *)
(***************************************************************************)

\* The characters of the model in code point order (uppercase before lowercase).
AsciiOrder ==
    <<" ", "!", "(", ")", ",", "-", ".", "/",
      "A", "B", "C", "D", "E", "F", "G", "H", "I", "J", "K", "L", "M",
      "N", "O", "P", "Q", "R", "S", "T", "U", "V", "W", "X", "Y", "Z",
      "[", "]",
      "a", "b", "c", "d", "e", "f", "g", "h", "i", "j", "k", "l", "m",
      "n", "o", "p", "q", "r", "s", "t", "u", "v", "w", "x", "y", "z">>

Chars == {AsciiOrder[i] : i \in 1..Len(AsciiOrder)}

Ord == [c \in Chars |-> CHOOSE i \in 1..Len(AsciiOrder) : AsciiOrder[i] = c]

UpperChars == {AsciiOrder[i] : i \in Ord["A"]..Ord["Z"]}
LowerChars == {AsciiOrder[i] : i \in Ord["a"]..Ord["z"]}

\* str.lower() on one character.
LowerChar == [c \in Chars |->
    IF c \in UpperChars THEN AsciiOrder[Ord[c] - Ord["A"] + Ord["a"]] ELSE c]

\* str.lower(), as a tuple
lower(s) == SubSeq([i \in 1..Len(s) |-> LowerChar[s[i]]], 1, Len(s))

\* str.upper() on one character.
UpperChar == [c \in Chars |->
    IF c \in LowerChars THEN AsciiOrder[Ord[c] - Ord["a"] + Ord["A"]] ELSE c]

\* str.replace(old, new) for one-character old and new
replace(s, old, new) ==
    SubSeq([i \in 1..Len(s) |-> IF s[i] = old THEN new ELSE s[i]], 1, Len(s))

\* str.title(): a letter after a non-letter, or at the start, is made upper
\* case, every other letter lower case
str_title(s) ==
    SubSeq([i \in 1..Len(s) |->
               IF i = 1 \/ s[i - 1] \notin UpperChars \cup LowerChars
               THEN UpperChar[s[i]] ELSE LowerChar[s[i]]], 1, Len(s))

\* regex classes \w and \s restricted to the model's characters
IsWordChar(c) == c \in UpperChars \cup LowerChars
IsSpace(c) == c = " "

\* s[a:b] with 0-based, end-exclusive Python indices, 0 <= a <= b <= len(s)
Slice(s, a, b) == SubSeq(s, a + 1, b)

Min(S) == CHOOSE x \in S : \A y \in S : x <= y
Max(S) == CHOOSE x \in S : \A y \in S : x >= y

\* str.strip()
strip(s) ==
    LET keep == {i \in 1..Len(s) : ~IsSpace(s[i])}
    IN  IF keep = {} THEN << >> ELSE SubSeq(s, Min(keep), Max(keep))

\* str.split(): the maximal runs of non-whitespace characters, left to right
RECURSIVE split_from(_, _)
split_from(s, i) ==
    IF i > Len(s) THEN << >>
    ELSE IF IsSpace(s[i]) THEN split_from(s, i + 1)
    ELSE LET ends == {j \in i..Len(s) : j = Len(s) \/ IsSpace(s[j + 1])}
             e == Min(ends)
         IN  <<SubSeq(s, i, e)>> \o split_from(s, e + 1)

split(s) == split_from(s, 1)

\* " ".join(words)
RECURSIVE join(_)
join(words) ==
    IF Len(words) = 0 THEN << >>
    ELSE IF Len(words) = 1 THEN words[1]
    ELSE words[1] \o <<" ">> \o join(Tail(words))

\* re.sub(r'[^\w\s]', '', s)
RECURSIVE strip_punct(_)
strip_punct(s) ==
    IF Len(s) = 0 THEN << >>
    ELSE (IF IsWordChar(s[1]) \/ IsSpace(s[1]) THEN <<s[1]>> ELSE << >>)
         \o strip_punct(Tail(s))

(***************************************************************************)
(* CrossLinkerService._generate_anchor_candidates                          *)
(***************************************************************************)

skip_words ==
    { <<"h", "o", "w">>, <<"t", "o">>, <<"t", "h", "e">>, <<"a">>, <<"a", "n">>,
      <<"w", "h", "a", "t">>, <<"w", "h", "y">>, <<"w", "h", "e", "n">>,
      <<"w", "h", "e", "r", "e">> }

\* the windows of n consecutive words starting at 0-based index i, i+1, ...
RECURSIVE phrases(_, _, _)
phrases(words, n, i) ==
    IF i + n > Len(words) THEN << >>
    ELSE (IF lower(words[i + 1]) \notin skip_words
          THEN <<join(SubSeq(words, i + 1, i + n))>> ELSE << >>)
         \o phrases(words, n, i + 1)

\* single words longer than 5 characters that are not skip words
RECURSIVE important_words(_)
important_words(words) ==
    IF Len(words) = 0 THEN << >>
    ELSE (IF Len(words[1]) > 5 /\ lower(words[1]) \notin skip_words
          THEN <<words[1]>> ELSE << >>)
         \o important_words(Tail(words))

\* mutant: the 2-word windows are tried before the 3-word windows
generate_anchor_candidates_short_first(title) ==
    LET clean_title == strip(strip_punct(title))
        words == split(clean_title)
    IN  <<clean_title>> \o phrases(words, 2, 0) \o phrases(words, 3, 0)
        \o important_words(words)

generate_anchor_candidates(title) ==
    LET clean_title == strip(strip_punct(title))
        words == split(clean_title)
    IN  <<clean_title>> \o phrases(words, 3, 0) \o phrases(words, 2, 0)
        \o important_words(words)

(***************************************************************************)
(* CrossLinkerService._insert_links                                        *)
(***************************************************************************)

\* The pattern (?<!\[)(?<!\()(anchor)(?!\])(?!\)) under re.IGNORECASE matches
\* at 0-based offset i; la and lc are the anchor and the content in lower case.
pattern_matches_at(la, lc, content, i) ==
    LET n == Len(la)
    IN  /\ i + n <= Len(content)
        /\ Slice(lc, i, i + n) = la
        /\ (i > 0 => content[i] \notin {"[", "("})
        /\ (i + n < Len(content) => content[i + n + 1] \notin {"]", ")"})

\* re.search(pattern, content, re.IGNORECASE): the leftmost match start, or -1
\* mutant: only the leftmost occurrence of the anchor is looked at, and the
\* anchor is given up when that occurrence touches a bracket
re_search_leftmost_only(anchor, content) ==
    LET la == lower(anchor)
        lc == lower(content)
        occurrences == {i \in 0..(Len(content) - Len(anchor)) :
                           Slice(lc, i, i + Len(la)) = la}
    IN  IF occurrences = {} THEN -1
        ELSE IF pattern_matches_at(la, lc, content, Min(occurrences))
        THEN Min(occurrences) ELSE -1

re_search(anchor, content) ==
    LET la == lower(anchor)
        lc == lower(content)
        hits == {i \in 0..(Len(content) - Len(anchor)) :
                    pattern_matches_at(la, lc, content, i)}
    IN  IF hits = {} THEN -1 ELSE Min(hits)

\* mutant: the visible text of the link is the anchor candidate, in the
\* title's casing, not the text matched in the body
RECURSIVE try_anchors_title_casing(_, _, _)
try_anchors_title_casing(acc, post, anchors) ==
    IF Len(anchors) = 0 THEN acc
    ELSE LET anchor == anchors[1]
             start == re_search(anchor, acc.content)
         IN  IF start >= 0
             THEN LET stop == start + Len(anchor)
                      link_md == <<"[">> \o anchor \o <<"]", "(">>
                                 \o post.url \o <<")">>
                  IN  [content |-> Slice(acc.content, 0, start) \o link_md
                                   \o Slice(acc.content, stop, Len(acc.content)),
                       added_links |-> Append(acc.added_links,
                                         [title |-> post.title, url |-> post.url,
                                          anchor_text |-> anchor]),
                       steps |-> Append(acc.steps,
                                   [before |-> acc.content, start |-> start,
                                    stop |-> stop, url |-> post.url])]
             ELSE try_anchors_title_casing(acc, post, Tail(anchors))

\* one iteration of "for post in posts": acc is [content, added_links, steps]
RECURSIVE try_anchors(_, _, _)
try_anchors(acc, post, anchors) ==
    IF Len(anchors) = 0 THEN acc
    ELSE LET anchor == anchors[1]
             start == re_search(anchor, acc.content)
         IN  IF start >= 0
             THEN LET stop == start + Len(anchor)
                      original_text == Slice(acc.content, start, stop)
                      link_md == <<"[">> \o original_text \o <<"]", "(">>
                                 \o post.url \o <<")">>
                  IN  [content |-> Slice(acc.content, 0, start) \o link_md
                                   \o Slice(acc.content, stop, Len(acc.content)),
                       added_links |-> Append(acc.added_links,
                                         [title |-> post.title, url |-> post.url,
                                          anchor_text |-> original_text]),
                       steps |-> Append(acc.steps,
                                   [before |-> acc.content, start |-> start,
                                    stop |-> stop, url |-> post.url])]
             ELSE try_anchors(acc, post, Tail(anchors))

RECURSIVE insert_links_from(_, _)
insert_links_from(acc, posts) ==
    IF Len(posts) = 0 THEN acc
    ELSE insert_links_from(
             try_anchors(acc, posts[1], generate_anchor_candidates(posts[1].title)),
             Tail(posts))

\* mutant: the records are returned in the order of the links in the text
RECURSIVE sort_links_by_position(_, _)
sort_links_by_position(links, steps) ==
    IF Len(links) = 0 THEN << >>
    ELSE LET first == CHOOSE k \in 1..Len(links) :
                          \A l \in 1..Len(links) :
                              \/ steps[k].start < steps[l].start
                              \/ (steps[k].start = steps[l].start /\ k >= l)
             rest == [i \in 1..(Len(links) - 1) |-> IF i < first THEN i ELSE i + 1]
         IN  <<links[first]>>
             \o sort_links_by_position([i \in 1..(Len(links) - 1) |-> links[rest[i]]],
                                       [i \in 1..(Len(links) - 1) |-> steps[rest[i]]])

insert_links_in_text_order(content, posts) ==
    LET done == insert_links_from([content |-> content, added_links |-> << >>,
                                   steps |-> << >>], posts)
    IN  [done EXCEPT !.added_links = sort_links_by_position(done.added_links, done.steps)]

\* steps is a history of the matches made: the content each match was made in
\* and the matched span; the code returns (content, added_links).
insert_links(content, posts) ==
    insert_links_from([content |-> content, added_links |-> << >>, steps |-> << >>],
                      posts)

(***************************************************************************)
(* rapidfuzz.fuzz.token_set_ratio (no processor), as called by             *)
(* _find_relevant_posts.  A score is the exact rational <<num, den>>,      *)
(* den > 0, of the float the library returns.                              *)
(***************************************************************************)

RatGeq(x, y) == x[1] * y[2] >= y[1] * x[2]
RatEq(x, y) == x[1] * y[2] = y[1] * x[2]
RatMax(x, y) == IF RatGeq(x, y) THEN x ELSE y

\* lexicographic order of Python str by code point
RECURSIVE StrLess(_, _)
StrLess(a, b) ==
    IF Len(b) = 0 THEN FALSE
    ELSE IF Len(a) = 0 THEN TRUE
    ELSE IF a[1] = b[1] THEN StrLess(Tail(a), Tail(b))
    ELSE Ord[a[1]] < Ord[b[1]]

\* sorted(tokens)
RECURSIVE sorted_tokens(_)
sorted_tokens(S) ==
    IF S = {} THEN << >>
    ELSE LET m == CHOOSE x \in S : \A y \in S : x = y \/ StrLess(x, y)
         IN  <<m>> \o sorted_tokens(S \ {m})

\* one row of the longest-common-subsequence table; cur holds columns 0..Len(cur)-1
RECURSIVE lcs_row(_, _, _, _)
lcs_row(c, b, prev, cur) ==
    IF Len(cur) = Len(b) + 1 THEN cur
    ELSE LET j == Len(cur)
             v == IF c = b[j] THEN prev[j] + 1
                  ELSE IF prev[j + 1] >= cur[j] THEN prev[j + 1] ELSE cur[j]
         IN  lcs_row(c, b, prev, Append(cur, v))

RECURSIVE lcs_rows(_, _, _, _)
lcs_rows(a, b, i, prev) ==
    IF i > Len(a) THEN prev[Len(b) + 1]
    ELSE lcs_rows(a, b, i + 1, lcs_row(a[i], b, prev, <<0>>))

lcs_length(a, b) == lcs_rows(a, b, 1, [j \in 1..(Len(b) + 1) |-> 0])

\* insertions plus deletions turning a into b
indel_distance(a, b) == Len(a) + Len(b) - 2 * lcs_length(a, b)

\* 100 - 100 * dist / lensum
norm_distance(dist, lensum) ==
    IF lensum = 0 THEN <<100, 1>> ELSE <<100 * (lensum - dist), lensum>>

TokenSet(s) == LET t == split(s) IN {t[i] : i \in 1..Len(t)}

\* the three ratios of token_set_ratio, from the joined differences and the
\* length of the joined intersection
set_ratio(diff_ab_joined, diff_ba_joined, sect_len) ==
    LET ab_len == Len(diff_ab_joined)
        ba_len == Len(diff_ba_joined)
        sep == IF sect_len # 0 THEN 1 ELSE 0
        sect_ab_len == sect_len + sep + ab_len
        sect_ba_len == sect_len + sep + ba_len
        result == norm_distance(indel_distance(diff_ab_joined, diff_ba_joined),
                                sect_ab_len + sect_ba_len)
        sect_ab_ratio == norm_distance(sep + ab_len, sect_len + sect_ab_len)
        sect_ba_ratio == norm_distance(sep + ba_len, sect_len + sect_ba_len)
    IN  IF sect_len = 0 THEN result
        ELSE RatMax(result, RatMax(sect_ab_ratio, sect_ba_ratio))

\* mutant: the number of common tokens over the number of tokens in the union
token_set_jaccard(tokens_a, tokens_b) ==
    IF tokens_a \cup tokens_b = {} THEN <<0, 1>>
    ELSE <<100 * Cardinality(tokens_a \cap tokens_b),
           Cardinality(tokens_a \cup tokens_b)>>

token_set_decomposed(tokens_a, tokens_b) ==
    LET intersect == tokens_a \cap tokens_b
        diff_ab == tokens_a \ tokens_b
        diff_ba == tokens_b \ tokens_a
    IN  IF tokens_a = {} \/ tokens_b = {} THEN <<0, 1>>
        ELSE IF intersect # {} /\ (diff_ab = {} \/ diff_ba = {}) THEN <<100, 1>>
        ELSE set_ratio(join(sorted_tokens(diff_ab)), join(sorted_tokens(diff_ba)),
                       Len(join(sorted_tokens(intersect))))

token_set_ratio(s1, s2) == token_set_decomposed(TokenSet(s1), TokenSet(s2))

(***************************************************************************)
(* CrossLinkerService._find_relevant_posts                                 *)
(***************************************************************************)

\* f"{title} {primary_keyword} {' '.join(secondary_keywords)}".lower()
article_text(a) ==
    lower(a.title \o <<" ">> \o a.primary_keyword \o <<" ">>
          \o join(a.secondary_keywords))

\* f"{post.title} {' '.join(post.tags)}".lower()
post_text(post) == lower(post.title \o <<" ">> \o join(post.tags))

post_score(a, post) == token_set_ratio(article_text(a), post_text(post))

\* mutant: the self check compares the titles without lower()
is_same_article_case_sensitive(a, post) == post.title = a.title

\* "if post.title.lower() == article.metadata.title.lower(): continue"
is_same_article(a, post) == lower(post.title) = lower(a.title)

\* mutant: the loop keeps every non-self post, whatever its score
RECURSIVE score_posts_no_threshold(_, _, _)
score_posts_no_threshold(a, posts, min_score) ==
    IF Len(posts) = 0 THEN << >>
    ELSE (IF ~(lower(posts[1].title) = lower(a.title))
          THEN <<[item |-> posts[1], score |-> post_score(a, posts[1])]>>
          ELSE << >>)
         \o score_posts_no_threshold(a, Tail(posts), min_score)

\* the loop building scored_posts, in input order
RECURSIVE score_posts(_, _, _)
score_posts(a, posts, min_score) ==
    IF Len(posts) = 0 THEN << >>
    ELSE LET post == posts[1]
             score == post_score(a, post)
         IN  (IF ~is_same_article(a, post) /\ RatGeq(score, <<min_score, 1>>)
              THEN <<[item |-> post, score |-> score]>> ELSE << >>)
             \o score_posts(a, Tail(posts), min_score)

\* mutant: an ascending sort that is then reversed, which reverses the order
\* of elements with equal scores
RECURSIVE sort_by_score_reversed(_)
sort_by_score_reversed(scored) ==
    IF Len(scored) = 0 THEN << >>
    ELSE LET rest == sort_by_score_reversed(SubSeq(scored, 1, Len(scored) - 1))
             x == scored[Len(scored)]
             ahead == {i \in 1..Len(rest) : ~RatGeq(x.score, rest[i].score)}
             k == IF ahead = {} THEN 0 ELSE Max(ahead)
         IN  SubSeq(rest, 1, k) \o <<x>> \o SubSeq(rest, k + 1, Len(rest))

\* Python's sort with reverse=True on a list of [item, score]: descending by
\* score, and stable (elements with equal scores keep their order)
RECURSIVE sort_by_score(_)
sort_by_score(scored) ==
    IF Len(scored) = 0 THEN << >>
    ELSE LET rest == sort_by_score(SubSeq(scored, 1, Len(scored) - 1))
             x == scored[Len(scored)]
             \* x goes after every element whose score is >= its own
             ahead == {i \in 1..Len(rest) : RatGeq(rest[i].score, x.score)}
             k == IF ahead = {} THEN 0 ELSE Max(ahead)
         IN  SubSeq(rest, 1, k) \o <<x>> \o SubSeq(rest, k + 1, Len(rest))

\* lst[:n]
Take(lst, n) == SubSeq(lst, 1, IF n < Len(lst) THEN n ELSE Len(lst))

find_relevant_posts(a, posts, max_links, min_score) ==
    LET ranked == Take(sort_by_score(score_posts(a, posts, min_score)), max_links)
    IN  [i \in 1..Len(ranked) |-> ranked[i].item]

(***************************************************************************)
(* CrossLinkerService.add_cross_links                                      *)
(***************************************************************************)

DefaultLinksPer1kWordsTenths == 35
DefaultMinSimilarityScore == 60

\* mutant: the product is rounded half up instead of truncated
target_links_rounded(word_count, rate_tenths) ==
    LET n == (word_count * rate_tenths + 5000) \div 10000
    IN  IF n >= 1 THEN n ELSE 1

\* max(1, int((word_count / 1000) * links_per_1k_words)), the rate in tenths
target_links_of(word_count, rate_tenths) ==
    LET n == (word_count * rate_tenths) \div 10000
    IN  IF n >= 1 THEN n ELSE 1

\* mutant: no early return; content and links start empty and are only filled
\* in when there are posts
add_cross_links_no_early_return(svc, a, posts) ==
    LET target_links == target_links_of(a.word_count, svc.links_per_1k_words)
        relevant_posts == find_relevant_posts(a, posts, target_links + 2,
                                              svc.min_similarity_score)
        r == IF Len(posts) = 0
             THEN [content |-> << >>, added_links |-> << >>, steps |-> << >>]
             ELSE insert_links(a.content, Take(relevant_posts, target_links))
    IN  [article |-> [a EXCEPT !.content = r.content,
                               !.internal_links = r.added_links],
         returned_early |-> Len(posts) = 0, target_links |-> target_links,
         relevant_posts |-> relevant_posts, steps |-> r.steps]

\* The value add_cross_links leaves in the article, with the intermediate
\* values of the call.
add_cross_links(svc, a, posts) ==
    IF Len(posts) = 0
    THEN [article |-> a, returned_early |-> TRUE, target_links |-> 0,
          relevant_posts |-> << >>, steps |-> << >>]
    ELSE LET target_links == target_links_of(a.word_count, svc.links_per_1k_words)
             relevant_posts == find_relevant_posts(a, posts, target_links + 2,
                                                   svc.min_similarity_score)
             r == insert_links(a.content, Take(relevant_posts, target_links))
         IN  [article |-> [a EXCEPT !.content = r.content,
                                    !.internal_links = r.added_links],
              returned_early |-> FALSE, target_links |-> target_links,
              relevant_posts |-> relevant_posts, steps |-> r.steps]

(***************************************************************************)
(* CrossLinkerService.suggest_link_opportunities and _get_context          *)
(***************************************************************************)

ContextChars == 50

\* lower-case needle la occurs in lower-case text lc at 0-based offset i
occurs_at(la, lc, i) == i + Len(la) <= Len(lc) /\ Slice(lc, i, i + Len(la)) = la

\* "anchor.lower() in article_text"
str_contains(la, lc) == \E i \in 0..(Len(lc) - Len(la)) : occurs_at(la, lc, i)

\* re.search(rf'\[{re.escape(anchor)}\]', content, re.IGNORECASE)
already_linked(anchor, content) ==
    str_contains(<<"[">> \o lower(anchor) \o <<"]">>, lower(content))

\* (.{0,50})(phrase)(.{0,50}) under re.IGNORECASE: the search starts at the
\* leftmost offset from which the phrase is within reach, and the greedy first
\* group runs to the last occurrence it can reach.  The bodies hold no newline.
get_context(content, phrase, context_chars) ==
    LET lc == lower(content)
        lp == lower(phrase)
        occ == {i \in 0..(Len(lc) - Len(lp)) : occurs_at(lp, lc, i)}
    IN  IF occ = {} THEN << >>
        ELSE LET start == Max({0, Min(occ) - context_chars})
                 k == Max({i \in occ : i - start <= context_chars})
                 stop == k + Len(phrase)
             IN  <<".", ".", ".">> \o Slice(content, start, k) \o <<"*", "*">>
                 \o Slice(content, k, stop) \o <<"*", "*">>
                 \o Slice(content, stop, Min({Len(content), stop + context_chars}))
                 \o <<".", ".", ".">>

\* the inner loop: the first anchor found in the content and not yet in
\* brackets gives the post's suggestion
RECURSIVE first_suggestion(_, _, _)
first_suggestion(a, post, anchors) ==
    IF Len(anchors) = 0 THEN << >>
    ELSE IF /\ str_contains(lower(anchors[1]), lower(a.content))
            /\ ~already_linked(anchors[1], a.content)
    THEN <<[post_title |-> post.title, post_url |-> post.url,
            suggested_anchor |-> anchors[1],
            context |-> get_context(a.content, anchors[1], ContextChars)]>>
    ELSE first_suggestion(a, post, Tail(anchors))

RECURSIVE suggestions_from(_, _)
suggestions_from(a, posts) ==
    IF Len(posts) = 0 THEN << >>
    ELSE (IF is_same_article(a, posts[1]) THEN << >>
          ELSE first_suggestion(a, posts[1],
                                generate_anchor_candidates(posts[1].title)))
         \o suggestions_from(a, Tail(posts))

\* mutant: the suggested links are also written into the article
suggest_and_insert(a, posts) ==
    LET r == insert_links(a.content, posts)
    IN  [article |-> [a EXCEPT !.content = r.content,
                               !.internal_links = r.added_links],
         posts |-> posts, suggestions |-> suggestions_from(a, posts)]

\* the article and the list the caller holds after the call, and the
\* returned suggestions
suggest_link_opportunities(a, posts) ==
    [article |-> a, posts |-> posts, suggestions |-> suggestions_from(a, posts)]

(***************************************************************************)
(* Keyword.qualifies, KeywordResearchService.filter_keywords and           *)
(* rank_keywords                                                           *)
(***************************************************************************)

\* Optional[int]: None is the empty tuple, a given value v is <<v>>
None == << >>
Some(v) == <<v>>

DefaultMinVolume == 5000
DefaultMaxKd == 30

\* mutant: the volume bound is exclusive
qualifies_exclusive(kw, min_volume, max_kd) ==
    /\ kw.search_volume > min_volume
    /\ kw.keyword_difficulty <= max_kd

qualifies(kw, min_volume, max_kd) ==
    /\ kw.search_volume >= min_volume
    /\ kw.keyword_difficulty <= max_kd

\* mutant: "min_volume or self.min_volume", which takes a given 0 for missing
threshold_or_default_falsy(arg, default) ==
    IF arg # None /\ arg[1] # 0 THEN arg[1] ELSE default

\* "x if x is not None else self.x"
threshold_or_default(arg, default) ==
    IF arg # None THEN arg[1] ELSE default

\* mutant: failing keywords are deleted from the list while it is iterated,
\* so the element after each deleted one is never tested
RECURSIVE delete_while_iterating(_, _, _, _)
delete_while_iterating(kws, i, min_vol, max_difficulty) ==
    IF i > Len(kws) THEN kws
    ELSE IF qualifies(kws[i], min_vol, max_difficulty)
    THEN delete_while_iterating(kws, i + 1, min_vol, max_difficulty)
    ELSE delete_while_iterating(SubSeq(kws, 1, i - 1) \o SubSeq(kws, i + 1, Len(kws)),
                                i + 1, min_vol, max_difficulty)

filter_keywords_in_place(svc, kws, min_volume, max_kd) ==
    delete_while_iterating(kws, 1,
        threshold_or_default(min_volume, svc.min_volume),
        threshold_or_default(max_kd, svc.max_kd))

filter_keywords(svc, kws, min_volume, max_kd) ==
    LET min_vol == threshold_or_default(min_volume, svc.min_volume)
        max_difficulty == threshold_or_default(max_kd, svc.max_kd)
    IN  SelectSeq(kws, LAMBDA kw : qualifies(kw, min_vol, max_difficulty))

\* "x or default": None and 0 both give the default
value_or(arg, default) ==
    IF arg = None \/ arg[1] = 0 THEN default ELSE arg[1]

\* WorkflowOrchestrator.run_original_workflow up to its step 4: the
\* thresholds are resolved against the settings and handed to
\* filter_keywords; the result is the list of qualified keywords
run_original_workflow(svc, settings, kws, min_volume, max_kd) ==
    LET min_vol == value_or(min_volume, settings.default_min_volume)
        max_difficulty == value_or(max_kd, settings.default_max_kd)
    IN  filter_keywords(svc, kws, Some(min_vol), Some(max_difficulty))

\* the nested function score(kw) of rank_keywords, as an exact rational
keyword_score(kw) ==
    IF kw.keyword_difficulty = 0 THEN <<kw.search_volume, 1>>
    ELSE <<kw.search_volume, kw.keyword_difficulty + 1>>

\* sorted(keywords, key=score, reverse=True)
rank_keywords(kws) ==
    LET ranked == sort_by_score([i \in 1..Len(kws) |->
                      [item |-> kws[i], score |-> keyword_score(kws[i])]])
    IN  [i \in 1..Len(ranked) |-> ranked[i].item]

(***************************************************************************)
(* Category and CategoryManager.  The categories file is held as the list  *)
(* of categories it stores; created_at and updated_at, which hold the wall *)
(* clock, are left out of a Category.                                      *)
(***************************************************************************)

\* Category(name=..., display_name=..., description=...): __init__ fills an
\* empty display_name from the name
Category(name, display_name, description) ==
    [name |-> name,
     display_name |-> IF Len(display_name) = 0
                      THEN str_title(replace(name, "-", " ")) ELSE display_name,
     description |-> description,
     post_count |-> 0]

\* the loop "for cat in categories: if cat.name.lower() == name.lower()":
\* the index of the first category it stops at, 0 when it runs through
find_category(cats, name) ==
    LET hits == {i \in 1..Len(cats) : lower(cats[i].name) = lower(name)}
    IN  IF hits = {} THEN 0 ELSE Min(hits)

\* Category | None
get_category(cats, name) ==
    LET i == find_category(cats, name)
    IN  IF i = 0 THEN None ELSE Some(cats[i])

category_exists(cats, name) == get_category(cats, name) # None

\* the stored list after the call, the exception raised and the value returned
add_category(cats, name, display_name, description) ==
    IF find_category(cats, name) # 0
    THEN [raised |-> "ValueError", categories |-> cats, result |-> None]
    ELSE LET category == Category(replace(lower(name), " ", "-"),
                                  IF Len(display_name) # 0 THEN display_name
                                  ELSE str_title(replace(name, "-", " ")),
                                  description)
         IN  [raised |-> "none", categories |-> Append(cats, category),
              result |-> Some(category)]

remove_category(cats, name) ==
    LET kept == SelectSeq(cats, LAMBDA cat : lower(cat.name) # lower(name))
    IN  IF Len(kept) < Len(cats)
        THEN [raised |-> "none", categories |-> kept, result |-> Some(TRUE)]
        ELSE [raised |-> "none", categories |-> cats, result |-> Some(FALSE)]

\* display_name, description and post_count are Optional
update_category(cats, name, display_name, description, post_count) ==
    LET i == find_category(cats, name)
    IN  IF i = 0 THEN [raised |-> "none", categories |-> cats, result |-> None]
        ELSE LET cat == [cats[i] EXCEPT
                           !.display_name = IF display_name # None
                                            THEN display_name[1] ELSE @,
                           !.description = IF description # None
                                           THEN description[1] ELSE @,
                           !.post_count = IF post_count # None
                                          THEN post_count[1] ELSE @]
             IN  [raised |-> "none", categories |-> [cats EXCEPT ![i] = cat],
                  result |-> Some(cat)]

increment_post_count(cats, name) ==
    LET category == get_category(cats, name)
    IN  IF category # None
        THEN update_category(cats, name, None, None,
                             Some(category[1].post_count + 1))
        ELSE [raised |-> "none", categories |-> cats, result |-> None]

(***************************************************************************)
(* DataForSEOClient.  A JSON object is a record, a JSON number or string v *)
(* is <<v>> and null or a missing key is None; the calls to the workflow   *)
(* logger are left out.                                                    *)
(***************************************************************************)

StatusOk == 20000

\* dict.get(key)
Get(d, key) == IF key \in DOMAIN d THEN d[key] ELSE None

\* dict.get(key, default)
GetOr(d, key, default) == IF key \in DOMAIN d THEN d[key] ELSE default

\* d[key] = value
Put(d, key, value) ==
    [k \in DOMAIN d \cup {key} |-> IF k = key THEN value ELSE d[k]]

normalize_number(value, default) == IF value = None THEN Some(default) ELSE value

RECURSIVE extract_task_errors(_)
extract_task_errors(tasks) ==
    IF Len(tasks) = 0 THEN << >>
    ELSE (IF Get(tasks[1], "status_code") # Some(StatusOk)
          THEN <<[status_code |-> Get(tasks[1], "status_code"),
                  status_message |-> Get(tasks[1], "status_message"),
                  error_message |-> Get(tasks[1], "error_message"),
                  id |-> Get(tasks[1], "id")]>>
          ELSE << >>)
         \o extract_task_errors(Tail(tasks))

NoError == [raised |-> "none"]

\* the DataForSEOError _ensure_success raises, or NoError
ensure_success(operation, response) ==
    LET status_code == Get(response, "status_code")
        tasks_error == GetOr(response, "tasks_error", Some(0))
        task_errors == extract_task_errors(GetOr(response, "tasks", << >>))
    IN  IF status_code # Some(StatusOk) \/ tasks_error \notin {Some(0), None}
           \/ Len(task_errors) # 0
        THEN [raised |-> "DataForSEOError", operation |-> operation,
              status_code |-> status_code,
              status_message |-> Get(response, "status_message"),
              task_errors |-> task_errors]
        ELSE NoError

\* the DataForSEOError _handle_http_error raises for an HTTPStatusError whose
\* response has the JSON body response_data (None when it is not JSON)
handle_http_error(operation, http_status, http_reason, response_data) ==
    LET data_status_code ==
            IF response_data # None THEN Get(response_data[1], "status_code")
            ELSE None
        data_status_message ==
            IF response_data # None THEN Get(response_data[1], "status_message")
            ELSE None
    IN  [raised |-> "DataForSEOError", operation |-> operation,
         status_code |-> IF data_status_code # None THEN data_status_code
                         ELSE Some(http_status),
         status_message |-> IF data_status_message # None
                               /\ data_status_message # Some("Ok.")
                            THEN data_status_message ELSE Some(http_reason),
         task_errors |-> << >>]

\* _post_json on the server's reply: the exception raised and the data returned
post_json(operation, reply) ==
    IF reply.kind = "http_error"
    THEN [error |-> handle_http_error(operation, reply.http_status,
                                      reply.http_reason, reply.response_data),
          data |-> None]
    ELSE LET error == ensure_success(operation, reply.data)
         IN  [error |-> error,
              data |-> IF error = NoError THEN Some(reply.data) ELSE None]

\* the payloads of the four endpoints
payload_keyword_suggestions(seed_keyword, location_code, language_code, limit) ==
    [keyword |-> seed_keyword, location_code |-> location_code,
     language_code |-> language_code, limit |-> limit,
     include_seed_keyword |-> TRUE]

payload_keyword_ideas(kws, location_code, language_code, limit) ==
    [keywords |-> kws, location_code |-> location_code,
     language_code |-> language_code, limit |-> limit]

payload_bulk_keyword_difficulty(kws, location_code, language_code) ==
    [keywords |-> kws, location_code |-> location_code,
     language_code |-> language_code]

payload_search_volume(kws, location_code, language_code) ==
    [keywords |-> kws, location_code |-> location_code,
     language_code |-> language_code]

\* the tasks the extractors read: those with status_code 20000
ok_tasks(response) ==
    SelectSeq(GetOr(response, "tasks", << >>),
              LAMBDA task : Get(task, "status_code") = Some(StatusOk))

\* the concatenation of a sequence of sequences
RECURSIVE flatten(_)
flatten(seqs) == IF Len(seqs) = 0 THEN << >> ELSE seqs[1] \o flatten(Tail(seqs))

\* the entries of task.get("result", []) over the tasks read, in order
task_results(response) ==
    LET tasks == ok_tasks(response)
    IN  flatten([i \in 1..Len(tasks) |-> GetOr(tasks[i], "result", << >>)])

\* the entries of result.get("items", []) over those results, in order
result_items(response) ==
    LET results == task_results(response)
    IN  flatten([i \in 1..Len(results) |-> GetOr(results[i], "items", << >>)])

\* one entry of the list _extract_keywords builds
extracted_keyword(item) ==
    LET keyword_data == GetOr(item, "keyword_data", item)
        keyword_info == GetOr(keyword_data, "keyword_info", << >>)
    IN  [keyword |-> GetOr(keyword_data, "keyword",
                           GetOr(item, "keyword", Some(<< >>))),
         search_volume |-> GetOr(keyword_info, "search_volume",
                              normalize_number(Get(item, "search_volume"), 0)),
         cpc |-> GetOr(keyword_info, "cpc",
                       normalize_number(Get(item, "cpc"), 0)),
         competition |-> GetOr(keyword_info, "competition",
                            normalize_number(Get(item, "competition"), 0)),
         competition_level |-> GetOr(keyword_info, "competition_level",
                                  GetOr(item, "competition_level", Some(<< >>)))]

extract_keywords(response) ==
    LET items == result_items(response)
    IN  [i \in 1..Len(items) |-> extracted_keyword(items[i])]

\* the key of an item in the maps: item.get("keyword", "").lower()
item_key(item) == lower(GetOr(item, "keyword", Some(<< >>))[1])

difficulty_entry(item) ==
    [keyword_difficulty |-> normalize_number(Get(item, "keyword_difficulty"), 0)]

\* the dict filled item by item, a later item replacing an earlier one of the
\* same key
RECURSIVE fill_difficulty_map(_, _)
fill_difficulty_map(map, items) ==
    IF Len(items) = 0 THEN map
    ELSE fill_difficulty_map(Put(map, item_key(items[1]),
                                 difficulty_entry(items[1])), Tail(items))

extract_difficulty_data(response) ==
    fill_difficulty_map(<< >>, result_items(response))

search_volume_entry(item) ==
    [search_volume |-> normalize_number(Get(item, "search_volume"), 0),
     cpc |-> normalize_number(Get(item, "cpc"), 0),
     competition |-> normalize_number(Get(item, "competition"), 0),
     competition_level |-> GetOr(item, "competition_level", Some(<< >>))]

RECURSIVE fill_volume_map(_, _)
fill_volume_map(map, items) ==
    IF Len(items) = 0 THEN map
    ELSE fill_volume_map(Put(map, item_key(items[1]),
                             search_volume_entry(items[1])), Tail(items))

extract_search_volume_data(response) ==
    fill_volume_map(<< >>, task_results(response))

\* what a client method leaves behind: the payload it posted, the reply, and
\* the exception that left it or the value it returned
ClientCall(operation, payload, reply, error, result) ==
    [op |-> operation, payload |-> payload, reply |-> reply, error |-> error,
     result |-> result]

get_keyword_suggestions(seed_keyword, location_code, language_code, limit, reply) ==
    LET r == post_json("get_keyword_suggestions", reply)
    IN  ClientCall("get_keyword_suggestions",
                   payload_keyword_suggestions(seed_keyword, location_code,
                                               language_code, limit),
                   reply, r.error,
                   IF r.error = NoError THEN Some(extract_keywords(r.data[1]))
                   ELSE None)

get_keyword_ideas(kws, location_code, language_code, limit, reply) ==
    LET r == post_json("get_keyword_ideas", reply)
    IN  ClientCall("get_keyword_ideas",
                   payload_keyword_ideas(kws, location_code, language_code, limit),
                   reply, r.error,
                   IF r.error = NoError THEN Some(extract_keywords(r.data[1]))
                   ELSE None)

get_bulk_keyword_difficulty(kws, location_code, language_code, reply) ==
    LET r == post_json("get_bulk_keyword_difficulty", reply)
    IN  ClientCall("get_bulk_keyword_difficulty",
                   payload_bulk_keyword_difficulty(kws, location_code,
                                                   language_code),
                   reply, r.error,
                   IF r.error = NoError
                   THEN Some(extract_difficulty_data(r.data[1])) ELSE None)

get_search_volume(kws, location_code, language_code, reply) ==
    LET r == post_json("get_search_volume", reply)
    IN  ClientCall("get_search_volume",
                   payload_search_volume(kws, location_code, language_code),
                   reply, r.error,
                   IF r.error = NoError
                   THEN Some(extract_search_volume_data(r.data[1])) ELSE None)

(***************************************************************************)
(* utils.text_utils.truncate_text                                          *)
(***************************************************************************)

\* a slice index as Python reads it on a sequence of length n: a negative
\* index counts from the end, and the result is clamped to 0..n
slice_index(i, n) == IF i < 0 THEN Max({0, n + i}) ELSE Min({i, n})

\* s[a:b] for any integers a and b
py_slice(s, a, b) ==
    LET x == slice_index(a, Len(s))
        y == slice_index(b, Len(s))
    IN  IF x >= y THEN << >> ELSE Slice(s, x, y)

\* s.rfind(ch, start, end) for a one-character ch: the highest 0-based index
\* of ch in s[start:end], or -1
rfind(s, ch, start, end) ==
    LET x == slice_index(start, Len(s))
        y == slice_index(end, Len(s))
        hits == {i \in x..(y - 1) : s[i + 1] = ch}
    IN  IF hits = {} THEN -1 ELSE Max(hits)

truncate_text(text, max_length, suffix) ==
    IF Len(text) <= max_length THEN text
    ELSE LET truncate_at == max_length - Len(suffix)
             last_space == rfind(text, " ", 0, truncate_at)
         IN  IF last_space > 0
             THEN py_slice(text, 0, last_space) \o suffix
             ELSE py_slice(text, 0, truncate_at) \o suffix

(***************************************************************************)
(* ContentPlanner.select_best_topic                                        *)
(***************************************************************************)

common_words ==
    { <<"t", "h", "e">>, <<"a">>, <<"a", "n">>, <<"t", "o">>, <<"f", "o", "r">>, <<"o", "f">>, <<"i", "n">>,
      <<"o", "n">>, <<"a", "n", "d">>, <<"o", "r">>, <<"h", "o", "w">>, <<"w", "h", "a", "t">>, <<"w", "h", "y">> }

\* set(title.lower().split()) - common_words
title_words(t) ==
    LET words == split(lower(t))
    IN  {words[i] : i \in 1..Len(words)} \ common_words

\* intersection / union > 0.6, with whole numbers: 5 * intersection > 3 * union
titles_similar(title1, title2) ==
    LET t1_words == title_words(title1)
        t2_words == title_words(title2)
    IN  IF t1_words = {} \/ t2_words = {} THEN FALSE
        ELSE 5 * Cardinality(t1_words \cap t2_words)
             > 3 * Cardinality(t1_words \cup t2_words)

existing_lower_of(existing_titles) ==
    {lower(existing_titles[i]) : i \in 1..Len(existing_titles)}

is_duplicate(topic, existing_lower) ==
    \E existing \in existing_lower :
        titles_similar(lower(GetOr(topic, "title", << >>)), existing)

RECURSIVE first_fresh_topic(_, _)
first_fresh_topic(topics, existing_lower) ==
    IF Len(topics) = 0 THEN None
    ELSE IF ~is_duplicate(topics[1], existing_lower) THEN Some(topics[1])
    ELSE first_fresh_topic(Tail(topics), existing_lower)

\* the result is None or Some(topic)
select_best_topic(topics, existing_titles) ==
    LET fresh == first_fresh_topic(topics, existing_lower_of(existing_titles))
    IN  IF fresh # None THEN fresh
        ELSE IF Len(topics) > 0 THEN Some(topics[1]) ELSE None

(***************************************************************************)
(* BlogApiClient: the cache file and get_posts                             *)
(*                                                                         *)
(* The cache file is None (no file) or Some(data), data being what         *)
(* json.load reads: a record with kind "cache" for a document that         *)
(* BlogCache.model_validate accepts, kind "garbage" for anything else.     *)
(* Time is counted in ticks of half an hour.                               *)
(***************************************************************************)

SecondsPerTick == 1800
SecondsPerHour == 3600

\* cache.model_dump(mode="json")
model_dump(cache) ==
    [kind |-> "cache", posts |-> cache.posts, fetched_at |-> cache.fetched_at,
     total_count |-> cache.total_count, include_content |-> cache.include_content]

\* BlogCache.model_validate(data)
model_validate(data) ==
    [posts |-> data.posts, fetched_at |-> data.fetched_at,
     total_count |-> data.total_count, include_content |-> data.include_content]

\* None when the file is missing or cannot be parsed
load_cache(file) ==
    IF file = None THEN None
    ELSE IF file[1].kind # "cache" THEN None
    ELSE Some(model_validate(file[1]))

save_cache(cache) == Some(model_dump(cache))

\* mutant: a cache whose age equals max_age_hours still counts as valid
is_cache_valid_inclusive(file, clock, max_age_hours) ==
    LET cache == load_cache(file)
    IN  IF cache = None THEN FALSE
        ELSE (clock - cache[1].fetched_at) * SecondsPerTick
             <= max_age_hours * SecondsPerHour

is_cache_valid(file, clock, max_age_hours) ==
    LET cache == load_cache(file)
    IN  IF cache = None THEN FALSE
        ELSE (clock - cache[1].fetched_at) * SecondsPerTick
             < max_age_hours * SecondsPerHour

\* the posts of all pages; the content is cleared unless it was asked for
fetch_all_posts(api_posts, include_content) ==
    [i \in 1..Len(api_posts) |->
        IF include_content THEN api_posts[i]
        ELSE [api_posts[i] EXCEPT !.content = ""]]

\* api is [raised |-> TRUE] when the request fails and
\* [raised |-> FALSE, posts |-> ...] when it answers
get_posts(file, clock, force, include_content, max_age_hours, api) ==
    LET cache == load_cache(file)
        use_cache ==
            /\ ~force
            /\ cache # None
            /\ is_cache_valid(file, clock, max_age_hours)
            /\ ~(include_content /\ ~cache[1].include_content)
    IN  IF use_cache
        THEN [api_called |-> FALSE, raised |-> FALSE, result |-> cache,
              file |-> file]
        ELSE IF api.raised
        THEN [api_called |-> TRUE, raised |-> TRUE, result |-> None,
              file |-> file]
        ELSE LET posts == fetch_all_posts(api.posts, include_content)
                 fresh == [posts |-> posts, fetched_at |-> clock,
                           total_count |-> Len(posts),
                           include_content |-> include_content]
             IN  [api_called |-> TRUE, raised |-> FALSE, result |-> Some(fresh),
                  file |-> save_cache(fresh)]

(***************************************************************************)
(* The state before any call                                               *)
(***************************************************************************)

NoAnchorCall == [op |-> "none", title |-> << >>, result |-> << >>]

AnchorsIdle == anchor_call = NoAnchorCall

NoPlannerCall == [op |-> "none", topics |-> << >>, existing_titles |-> << >>,
                  result |-> << >>]

PlannerIdle == planner_call = NoPlannerCall

NoBlogCall == [op |-> "none", force |-> FALSE, include_content |-> FALSE,
               max_age_hours |-> 0, file_before |-> << >>, at |-> 0,
               api_called |-> FALSE, raised |-> FALSE, result |-> << >>]

\* no cache file on disk yet, no get_posts call made
BlogIdle ==
    /\ cache_file = << >>
    /\ now = 0
    /\ blog_call = NoBlogCall

NoTextCall == [op |-> "none", text |-> << >>, max_length |-> 0,
               suffix |-> << >>, result |-> << >>]

TextIdle == text_call = NoTextCall

NoClientCall == [op |-> "none", payload |-> << >>, reply |-> << >>,
                 error |-> NoError, result |-> None]

ClientIdle == dfs_call = NoClientCall

NoCatCall == [op |-> "none", name |-> << >>, raised |-> "none", result |-> None]

\* CategoryManager.__init__ on a path that holds no file: _save_categories([])
CategoriesIdle ==
    /\ categories = << >>
    /\ cat_call = [op |-> "none", name |-> << >>, raised |-> "none",
                   result |-> None, before |-> << >>, prev |-> NoCatCall]
    /\ cat_calls = 0

NoCall ==
    [posts |-> << >>, content_before |-> << >>, links_before |-> << >>,
     returned_early |-> FALSE, target_links |-> 0, relevant_posts |-> << >>,
     steps |-> << >>]

NoSuggest == [done |-> FALSE, article_before |-> << >>, posts_before |-> << >>,
              article_after |-> << >>, posts_after |-> << >>,
              suggestions |-> << >>]

NoKwCall == [op |-> "none", input |-> << >>, min_volume |-> None,
             max_kd |-> None, raised |-> "none", result |-> << >>]

KeywordsIdle ==
    /\ kw_service = [min_volume |-> DefaultMinVolume, max_kd |-> DefaultMaxKd]
    /\ keywords = << >>
    /\ kw_call = NoKwCall

CrossLinkIdle ==
    /\ linker = [links_per_1k_words |-> DefaultLinksPer1kWordsTenths,
                 min_similarity_score |-> DefaultMinSimilarityScore]
    /\ article = [title |-> << >>, primary_keyword |-> << >>,
                  secondary_keywords |-> << >>, word_count |-> 0,
                  content |-> << >>, internal_links |-> << >>]
    /\ existing_posts = << >>
    /\ calls = 0
    /\ last = NoCall
    /\ suggest = NoSuggest

(***************************************************************************)
(* Inputs of the cross-linking model                                       *)
(***************************************************************************)

MaxPosts == 3    \* longest corpus
MaxCalls == 2    \* add_cross_links calls made on one article

TitleRemoteWork ==
    <<"R", "e", "m", "o", "t", "e", " ", "W", "o", "r", "k">>
KeywordRemoteWork ==
    <<"r", "e", "m", "o", "t", "e", " ", "w", "o", "r", "k">>
TitleRemoteWorkTips ==
    <<"R", "e", "m", "o", "t", "e", " ", "W", "o", "r", "k", " ", "T", "i",
      "p", "s">>
TitleSelfUpper ==
    <<"R", "E", "M", "O", "T", "E", " ", "W", "O", "R", "K">>
TitleBestRemoteWorkTips ==
    <<"B", "e", "s", "t", " ", "R", "e", "m", "o", "t", "e", " ", "W", "o",
      "r", "k", " ", "T", "i", "p", "s">>
TitleRemoteJobs ==
    <<"R", "e", "m", "o", "t", "e", " ", "J", "o", "b", "s">>
TitleSalaryGuide ==
    <<"S", "a", "l", "a", "r", "y", " ", "G", "u", "i", "d", "e">>
UrlTips ==
    <<"/", "r", "e", "m", "o", "t", "e", "-", "t", "i", "p", "s">>
UrlSelf ==
    <<"/", "s", "e", "l", "f">>
UrlBest ==
    <<"/", "b", "e", "s", "t">>
UrlJobs ==
    <<"/", "j", "o", "b", "s">>
UrlSalary ==
    <<"/", "s", "a", "l", "a", "r", "y">>
BodyPlain ==
    <<"L", "e", "a", "r", "n", " ", "a", "b", "o", "u", "t", " ", "r", "e",
      "m", "o", "t", "e", " ", "w", "o", "r", "k", " ", "t", "o", "d", "a",
      "y", ".">>
BodyTwice ==
    <<"r", "e", "m", "o", "t", "e", " ", "w", "o", "r", "k", " ", "t", "i",
      "p", "s", " ", "a", "n", "d", " ", "r", "e", "m", "o", "t", "e", " ",
      "w", "o", "r", "k">>
BodyLinked ==
    <<"s", "e", "e", " ", "[", "g", "r", "e", "a", "t", " ", "r", "e", "m",
      "o", "t", "e", " ", "w", "o", "r", "k", " ", "t", "i", "p", "s", "]",
      "(", "/", "x", ")", " ", "n", "o", "w">>
BodyJobs ==
    <<"b", "e", "s", "t", " ", "r", "e", "m", "o", "t", "e", " ", "w", "o",
      "r", "k", " ", "t", "i", "p", "s", ",", " ", "r", "e", "m", "o", "t",
      "e", " ", "j", "o", "b", "s", ",", " ", "s", "a", "l", "a", "r", "y">>
Post(title, url) == [title |-> title, url |-> url, tags |-> << >>]

PostPool ==
    { Post(TitleRemoteWorkTips, UrlTips),
      Post(TitleSelfUpper, UrlSelf),
      Post(TitleBestRemoteWorkTips, UrlBest),
      Post(TitleRemoteJobs, UrlJobs),
      Post(TitleSalaryGuide, UrlSalary) }

Corpora == UNION {[1..n -> PostPool] : n \in 0..MaxPosts}

Bodies == {BodyPlain, BodyTwice, BodyLinked, BodyJobs}

WordCounts == {0, 600}

Init ==
    /\ linker = [links_per_1k_words |-> DefaultLinksPer1kWordsTenths,
                 min_similarity_score |-> DefaultMinSimilarityScore]
    /\ \E body \in Bodies, wc \in WordCounts :
          article = [title |-> TitleRemoteWork,
                     primary_keyword |-> KeywordRemoteWork,
                     secondary_keywords |-> << >>,
                     word_count |-> wc,
                     content |-> body,
                     internal_links |-> << >>]
    /\ existing_posts \in Corpora
    /\ calls = 0
    /\ last = NoCall
    /\ suggest = NoSuggest
    /\ KeywordsIdle
    /\ CategoriesIdle
    /\ ClientIdle
    /\ TextIdle
    /\ AnchorsIdle
    /\ PlannerIdle
    /\ BlogIdle

\* article = cross_linker.add_cross_links(article, existing_posts)
AddCrossLinks ==
    /\ calls < MaxCalls
    /\ LET r == add_cross_links(linker, article, existing_posts)
       IN  /\ article' = r.article
           /\ last' = [posts |-> existing_posts,
                       content_before |-> article.content,
                       links_before |-> article.internal_links,
                       returned_early |-> r.returned_early,
                       target_links |-> r.target_links,
                       relevant_posts |-> r.relevant_posts,
                       steps |-> r.steps]
    /\ calls' = calls + 1
    /\ UNCHANGED <<linker, existing_posts, suggest>>
    /\ UNCHANGED keyword_vars
    /\ UNCHANGED category_vars
    /\ UNCHANGED <<dfs_call, text_call>>
    /\ UNCHANGED <<anchor_call, planner_call, blog_vars>>

Next == AddCrossLinks

Spec == Init /\ [][Next]_vars

\* suggestions = cross_linker.suggest_link_opportunities(article, existing_posts)
SuggestLinkOpportunities ==
    /\ ~suggest.done
    /\ LET r == suggest_link_opportunities(article, existing_posts)
       IN  /\ article' = r.article
           /\ existing_posts' = r.posts
           /\ suggest' = [done |-> TRUE, article_before |-> article,
                          posts_before |-> existing_posts,
                          article_after |-> r.article, posts_after |-> r.posts,
                          suggestions |-> r.suggestions]
    /\ UNCHANGED <<linker, calls, last>>
    /\ UNCHANGED keyword_vars
    /\ UNCHANGED category_vars
    /\ UNCHANGED <<dfs_call, text_call>>
    /\ UNCHANGED <<anchor_call, planner_call, blog_vars>>

NextSuggest == AddCrossLinks \/ SuggestLinkOpportunities

\* corpora of a post that matches the body, the article itself in another
\* letter case, and a post below the similarity threshold
SuggestPool ==
    { Post(TitleRemoteWorkTips, UrlTips),
      Post(TitleSelfUpper, UrlSelf),
      Post(TitleSalaryGuide, UrlSalary) }

InitSuggest ==
    /\ linker = [links_per_1k_words |-> DefaultLinksPer1kWordsTenths,
                 min_similarity_score |-> DefaultMinSimilarityScore]
    /\ \E body \in {BodyPlain, BodyTwice, BodyLinked, BodyJobs} :
          article = [title |-> TitleRemoteWork,
                     primary_keyword |-> KeywordRemoteWork,
                     secondary_keywords |-> << >>,
                     word_count |-> 0,
                     content |-> body,
                     internal_links |-> << >>]
    /\ existing_posts \in UNION {[1..n -> SuggestPool] : n \in 0..MaxPosts}
    /\ calls = 0
    /\ last = NoCall
    /\ suggest = NoSuggest
    /\ KeywordsIdle
    /\ CategoriesIdle
    /\ ClientIdle
    /\ TextIdle
    /\ AnchorsIdle
    /\ PlannerIdle
    /\ BlogIdle

\* both public operations of the service, in any order
SpecSuggest == InitSuggest /\ [][NextSuggest]_vars


(***************************************************************************)
(* The link target as a function of word_count and rate: add_cross_links   *)
(* on a one-post corpus, for every word count up to MaxWordCount.          *)
(***************************************************************************)

MaxWordCount == 1200

\* links_per_1k_words values, in tenths: 1.0 and the default 3.5
RateTenths == {10, DefaultLinksPer1kWordsTenths}

InitTargetLinks ==
    /\ \E r \in RateTenths :
          linker = [links_per_1k_words |-> r,
                    min_similarity_score |-> DefaultMinSimilarityScore]
    /\ \E wc \in 0..MaxWordCount :
          article = [title |-> TitleRemoteWork,
                     primary_keyword |-> KeywordRemoteWork,
                     secondary_keywords |-> << >>,
                     word_count |-> wc,
                     content |-> BodyPlain,
                     internal_links |-> << >>]
    /\ existing_posts = <<Post(TitleRemoteWorkTips, UrlTips)>>
    /\ calls = 0
    /\ last = NoCall
    /\ suggest = NoSuggest
    /\ KeywordsIdle
    /\ CategoriesIdle
    /\ ClientIdle
    /\ TextIdle
    /\ AnchorsIdle
    /\ PlannerIdle
    /\ BlogIdle

SpecTargetLinks == InitTargetLinks /\ [][Next]_vars

(***************************************************************************)
(* add_cross_links on corpora in which a highly ranked post has no anchor  *)
(* in the body while a lower ranked one has                                *)
(***************************************************************************)

TitleWorkRemote == <<"W", "o", "r", "k", " ", "R", "e", "m", "o", "t", "e">>
UrlWorkRemote == <<"/", "w", "o", "r", "k", "-", "r", "e", "m", "o", "t", "e">>
BodyWorkTips == <<"g", "o", "o", "d", " ", "w", "o", "r", "k", " ", "t", "i", "p", "s", " ", "t", "o", "d", "a", "y">>
BodyJobsFirst == <<"r", "e", "m", "o", "t", "e", " ", "j", "o", "b", "s", " ", "a", "n", "d", " ", "r", "e", "m", "o", "t", "e", " ", "w", "o", "r", "k", " ", "t", "i", "p", "s">>

OversamplePool ==
    { Post(TitleWorkRemote, UrlWorkRemote),
      Post(TitleRemoteWorkTips, UrlTips),
      Post(TitleRemoteJobs, UrlJobs) }

InitOversample ==
    /\ linker = [links_per_1k_words |-> DefaultLinksPer1kWordsTenths,
                 min_similarity_score |-> DefaultMinSimilarityScore]
    /\ \E body \in {BodyWorkTips, BodyPlain, BodyJobsFirst}, wc \in WordCounts :
          article = [title |-> TitleRemoteWork,
                     primary_keyword |-> KeywordRemoteWork,
                     secondary_keywords |-> << >>,
                     word_count |-> wc,
                     content |-> body,
                     internal_links |-> << >>]
    /\ existing_posts \in UNION {[1..n -> OversamplePool] : n \in 0..MaxPosts}
    /\ calls = 0
    /\ last = NoCall
    /\ suggest = NoSuggest
    /\ KeywordsIdle
    /\ CategoriesIdle
    /\ ClientIdle
    /\ TextIdle
    /\ AnchorsIdle
    /\ PlannerIdle
    /\ BlogIdle

SpecOversample == InitOversample /\ [][Next]_vars

(***************************************************************************)
(* Inputs of the keyword model                                             *)
(***************************************************************************)

MaxKeywords == 3    \* longest keyword list

Kw(text, volume, kd) ==
    [keyword |-> text, search_volume |-> volume, keyword_difficulty |-> kd]

KeywordPool ==
    { Kw("a", 6000, 20), Kw("b", 3000, 20), Kw("x", 1000, 0),
      Kw("y", 2000, 9), Kw("z", 2000, 1), Kw("e", 5000, 30) }

KeywordLists == UNION {[1..n -> KeywordPool] : n \in 0..MaxKeywords}

\* thresholds a caller can pass; -1 and 101 lie outside 0.. and 0..100
MinVolumeArgs == {None, Some(-1), Some(0), Some(2000), Some(5000)}
MaxKdArgs == {None, Some(-1), Some(0), Some(20), Some(30), Some(101)}

InitKeywords ==
    /\ kw_service = [min_volume |-> DefaultMinVolume, max_kd |-> DefaultMaxKd]
    /\ keywords \in KeywordLists
    /\ kw_call = NoKwCall
    /\ CrossLinkIdle
    /\ CategoriesIdle
    /\ ClientIdle
    /\ TextIdle
    /\ AnchorsIdle
    /\ PlannerIdle
    /\ BlogIdle

\* qualified = service.filter_keywords(keywords, min_volume=v, max_kd=d)
FilterKeywords ==
    /\ kw_call.op = "none"
    /\ \E v \in MinVolumeArgs, d \in MaxKdArgs :
          kw_call' = [op |-> "filter", input |-> keywords, min_volume |-> v,
                      max_kd |-> d, raised |-> "none",
                      result |-> filter_keywords(kw_service, keywords, v, d)]
    /\ UNCHANGED <<kw_service, keywords>>
    /\ UNCHANGED cross_link_vars
    /\ UNCHANGED category_vars
    /\ UNCHANGED <<dfs_call, text_call>>
    /\ UNCHANGED <<anchor_call, planner_call, blog_vars>>

\* ranked = service.rank_keywords(keywords)
RankKeywords ==
    /\ kw_call.op = "none"
    /\ kw_call' = [op |-> "rank", input |-> keywords, min_volume |-> None,
                   max_kd |-> None, raised |-> "none", result |-> rank_keywords(keywords)]
    /\ UNCHANGED <<kw_service, keywords>>
    /\ UNCHANGED cross_link_vars
    /\ UNCHANGED category_vars
    /\ UNCHANGED <<dfs_call, text_call>>
    /\ UNCHANGED <<anchor_call, planner_call, blog_vars>>

NextKeywords == FilterKeywords \/ RankKeywords

SpecKeywords == InitKeywords /\ [][NextKeywords]_vars

(***************************************************************************)
(* WorkflowOrchestrator: the service is built from the settings, the       *)
(* keywords come back from keyword_service.original_workflow               *)
(***************************************************************************)

SettingsDefaultMinVolume == 1000
SettingsDefaultMaxKd == 30

settings == [default_min_volume |-> SettingsDefaultMinVolume,
             default_max_kd |-> SettingsDefaultMaxKd]

WorkflowKeywordPool == KeywordPool \cup {Kw("w", 500, 10)}

WorkflowMinVolumeArgs == {None, Some(0), Some(2000), Some(5000)}
WorkflowMaxKdArgs == {None, Some(0), Some(20), Some(30)}

InitWorkflow ==
    /\ kw_service = [min_volume |-> settings.default_min_volume,
                     max_kd |-> settings.default_max_kd]
    /\ keywords \in UNION {[1..n -> WorkflowKeywordPool] : n \in 0..MaxKeywords}
    /\ kw_call = NoKwCall
    /\ CrossLinkIdle
    /\ CategoriesIdle
    /\ ClientIdle
    /\ TextIdle
    /\ AnchorsIdle
    /\ PlannerIdle
    /\ BlogIdle

\* wf.run_original_workflow(min_volume=v, max_kd=d), up to the filtering step
RunOriginalWorkflow ==
    /\ kw_call.op = "none"
    /\ \E v \in WorkflowMinVolumeArgs, d \in WorkflowMaxKdArgs :
          kw_call' = [op |-> "workflow", input |-> keywords, min_volume |-> v,
                      max_kd |-> d, raised |-> "none",
                      result |-> run_original_workflow(kw_service, settings,
                                                       keywords, v, d)]
    /\ UNCHANGED <<kw_service, keywords>>
    /\ UNCHANGED cross_link_vars
    /\ UNCHANGED category_vars
    /\ UNCHANGED <<dfs_call, text_call>>
    /\ UNCHANGED <<anchor_call, planner_call, blog_vars>>

NextWorkflow == RunOriginalWorkflow

SpecWorkflow == InitWorkflow /\ [][NextWorkflow]_vars

(***************************************************************************)
(* Inputs of the category model                                            *)
(***************************************************************************)

MaxCategoryCalls == 3

NameTest == <<"t", "e", "s", "t">>
NameTestUpper == <<"T", "E", "S", "T">>
NameRemoteWorkSlug == <<"r", "e", "m", "o", "t", "e", "-", "w", "o", "r", "k">>
NameRemoteWorkSpaced == <<"R", "e", "m", "o", "t", "e", " ", "W", "o", "r", "k">>

CategoryNames == {NameTest, NameTestUpper, NameRemoteWorkSlug, NameRemoteWorkSpaced}

DisplayNames == {<< >>, <<"T", "e", "s", "t", "s">>}

InitCategories ==
    /\ CategoriesIdle
    /\ CrossLinkIdle
    /\ KeywordsIdle
    /\ ClientIdle
    /\ TextIdle
    /\ AnchorsIdle
    /\ PlannerIdle
    /\ BlogIdle

\* what a call leaves in cat_call: the call, the list before it, and the call
\* made before it
CatCall(op, name, r) ==
    [op |-> op, name |-> name, raised |-> r.raised, result |-> r.result,
     before |-> categories,
     prev |-> [op |-> cat_call.op, name |-> cat_call.name,
               raised |-> cat_call.raised, result |-> cat_call.result]]

\* manager.add_category(name, display_name)
AddCategory ==
    /\ cat_calls < MaxCategoryCalls
    /\ \E name \in CategoryNames, display_name \in DisplayNames :
          LET r == add_category(categories, name, display_name, << >>)
          IN  /\ categories' = r.categories
              /\ cat_call' = CatCall("add", name, r)
    /\ cat_calls' = cat_calls + 1
    /\ UNCHANGED cross_link_vars
    /\ UNCHANGED keyword_vars
    /\ UNCHANGED <<dfs_call, text_call>>
    /\ UNCHANGED <<anchor_call, planner_call, blog_vars>>

\* manager.category_exists(name), which is get_category(name) is not None
CategoryExists ==
    /\ cat_calls < MaxCategoryCalls
    /\ \E name \in CategoryNames :
          cat_call' = CatCall("get", name,
                              [raised |-> "none",
                               result |-> get_category(categories, name)])
    /\ cat_calls' = cat_calls + 1
    /\ UNCHANGED categories
    /\ UNCHANGED cross_link_vars
    /\ UNCHANGED keyword_vars
    /\ UNCHANGED <<dfs_call, text_call>>
    /\ UNCHANGED <<anchor_call, planner_call, blog_vars>>

\* manager.remove_category(name)
RemoveCategory ==
    /\ cat_calls < MaxCategoryCalls
    /\ \E name \in CategoryNames :
          LET r == remove_category(categories, name)
          IN  /\ categories' = r.categories
              /\ cat_call' = CatCall("remove", name, r)
    /\ cat_calls' = cat_calls + 1
    /\ UNCHANGED cross_link_vars
    /\ UNCHANGED keyword_vars
    /\ UNCHANGED <<dfs_call, text_call>>
    /\ UNCHANGED <<anchor_call, planner_call, blog_vars>>

\* manager.increment_post_count(name)
IncrementPostCount ==
    /\ cat_calls < MaxCategoryCalls
    /\ \E name \in CategoryNames :
          LET r == increment_post_count(categories, name)
          IN  /\ categories' = r.categories
              /\ cat_call' = CatCall("increment", name, r)
    /\ cat_calls' = cat_calls + 1
    /\ UNCHANGED cross_link_vars
    /\ UNCHANGED keyword_vars
    /\ UNCHANGED <<dfs_call, text_call>>
    /\ UNCHANGED <<anchor_call, planner_call, blog_vars>>

NextCategories ==
    AddCategory \/ CategoryExists \/ RemoveCategory \/ IncrementPostCount

SpecCategories == InitCategories /\ [][NextCategories]_vars

(***************************************************************************)
(* Inputs of the DataForSEO client model: the arguments of a call and the  *)
(* reply of the server                                                     *)
(***************************************************************************)

MaxTasks == 2    \* most tasks in a reply

DefaultLocationCode == 2840
SingaporeLocationCode == 1702
DefaultLimit == 100
InvalidFieldStatus == 40501

KeywordFoo == <<"f", "o", "o">>
KeywordFooTitle == <<"F", "o", "o">>
KeywordBar == <<"b", "a", "r">>

LocationCodes == {DefaultLocationCode, SingaporeLocationCode}
LanguageCodes == {"en", "de"}

\* items of a reply: plain, with null metrics, and in the nested
\* keyword_data / keyword_info form
ItemFoo ==
    [keyword |-> Some(KeywordFooTitle), search_volume |-> Some(1234),
     keyword_difficulty |-> Some(12), competition_level |-> Some("MEDIUM")]

ItemFooNull ==
    [keyword |-> Some(KeywordFoo), search_volume |-> None,
     keyword_difficulty |-> None]

ItemBarNested ==
    [keyword_data |-> [keyword |-> Some(KeywordBar),
                       keyword_info |-> [search_volume |-> Some(50),
                                         cpc |-> None]]]

OkTask(result) ==
    [status_code |-> Some(StatusOk), status_message |-> Some("Ok."),
     result |-> result]

InvalidLocationTask ==
    [status_code |-> Some(InvalidFieldStatus),
     status_message |-> Some("Invalid Field: 'location_name'.")]

\* tasks of the dataforseo_labs endpoints: results that hold items
LabsTasks ==
    { OkTask(<<[items |-> <<ItemFoo, ItemBarNested>>]>>),
      OkTask(<<[items |-> <<ItemFoo>>], [items |-> <<ItemFooNull>>]>>),
      InvalidLocationTask }

\* tasks of the keywords_data endpoint: the results are the items
VolumeTasks ==
    { OkTask(<<ItemFoo>>), OkTask(<<ItemFoo, ItemFooNull>>),
      InvalidLocationTask }

HttpErrors ==
    { [kind |-> "http_error", http_status |-> 500,
       http_reason |-> "Internal Server Error", response_data |-> None],
      [kind |-> "http_error", http_status |-> 401,
       http_reason |-> "Unauthorized",
       response_data |-> Some([status_code |-> Some(40100),
                               status_message |-> Some("Not Authorized.")])] }

\* a reply with a JSON body; tasks_error counts the tasks that failed
JsonReply(tasks) ==
    [kind |-> "json",
     data |-> [status_code |-> Some(StatusOk), status_message |-> Some("Ok."),
               tasks_error |-> Some(Cardinality({i \in 1..Len(tasks) :
                                      tasks[i].status_code # Some(StatusOk)})),
               tasks |-> tasks]]

Replies(task_pool) ==
    HttpErrors
    \cup {JsonReply(tasks) : tasks \in UNION {[1..n -> task_pool] : n \in 0..MaxTasks}}

InitClient ==
    /\ ClientIdle
    /\ CrossLinkIdle
    /\ KeywordsIdle
    /\ CategoriesIdle
    /\ TextIdle
    /\ AnchorsIdle
    /\ PlannerIdle
    /\ BlogIdle

\* await client.get_keyword_suggestions(seed, location_code, language_code)
GetKeywordSuggestions ==
    /\ dfs_call.op = "none"
    /\ \E location_code \in LocationCodes, language_code \in LanguageCodes,
          reply \in Replies(LabsTasks) :
          dfs_call' = get_keyword_suggestions(KeywordFoo, location_code,
                                              language_code, DefaultLimit, reply)
    /\ UNCHANGED <<cross_link_vars, keyword_vars, category_vars, text_call>>
    /\ UNCHANGED <<anchor_call, planner_call, blog_vars>>

\* await client.get_keyword_ideas(keywords, location_code, language_code)
GetKeywordIdeas ==
    /\ dfs_call.op = "none"
    /\ \E location_code \in LocationCodes, language_code \in LanguageCodes,
          reply \in Replies(LabsTasks) :
          dfs_call' = get_keyword_ideas(<<KeywordFoo>>, location_code,
                                        language_code, DefaultLimit, reply)
    /\ UNCHANGED <<cross_link_vars, keyword_vars, category_vars, text_call>>
    /\ UNCHANGED <<anchor_call, planner_call, blog_vars>>

\* await client.get_bulk_keyword_difficulty(keywords, location_code, language_code)
GetBulkKeywordDifficulty ==
    /\ dfs_call.op = "none"
    /\ \E location_code \in LocationCodes, language_code \in LanguageCodes,
          reply \in Replies(LabsTasks) :
          dfs_call' = get_bulk_keyword_difficulty(<<KeywordFoo>>, location_code,
                                                  language_code, reply)
    /\ UNCHANGED <<cross_link_vars, keyword_vars, category_vars, text_call>>
    /\ UNCHANGED <<anchor_call, planner_call, blog_vars>>

\* await client.get_search_volume(keywords, location_code, language_code)
GetSearchVolume ==
    /\ dfs_call.op = "none"
    /\ \E location_code \in LocationCodes, language_code \in LanguageCodes,
          reply \in Replies(VolumeTasks) :
          dfs_call' = get_search_volume(<<KeywordFoo>>, location_code,
                                        language_code, reply)
    /\ UNCHANGED <<cross_link_vars, keyword_vars, category_vars, text_call>>
    /\ UNCHANGED <<anchor_call, planner_call, blog_vars>>

NextClient ==
    \/ GetKeywordSuggestions
    \/ GetKeywordIdeas
    \/ GetBulkKeywordDifficulty
    \/ GetSearchVolume

SpecClient == InitClient /\ [][NextClient]_vars

(***************************************************************************)
(* Inputs of the truncate_text model                                       *)
(***************************************************************************)

MaxLength == 22    \* largest max_length passed

TextShort == <<"S", "h", "o", "r", "t">>
TextHello == <<"H", "e", "l", "l", "o", " ", "w", "o", "n", "d", "e", "r", "f", "u", "l", " ", "w", "o", "r", "l", "d">>
TextLeadingSpace == <<" ", "l", "e", "a", "d", " ", "o", "n">>
TextOneWord == <<"W", "o", "n", "d", "e", "r", "f", "u", "l">>

Texts == {TextShort, TextHello, TextLeadingSpace, TextOneWord}

\* the default suffix, a one-character suffix and no suffix
Suffixes == {<<".", ".", ".">>, <<"~">>, << >>}

InitText ==
    /\ TextIdle
    /\ AnchorsIdle
    /\ PlannerIdle
    /\ BlogIdle
    /\ CrossLinkIdle
    /\ KeywordsIdle
    /\ CategoriesIdle
    /\ ClientIdle

\* result = truncate_text(text, max_length, suffix)
TruncateText ==
    /\ text_call.op = "none"
    /\ \E text \in Texts, max_length \in 0..MaxLength, suffix \in Suffixes :
          text_call' = [op |-> "truncate", text |-> text,
                        max_length |-> max_length, suffix |-> suffix,
                        result |-> truncate_text(text, max_length, suffix)]
    /\ UNCHANGED <<cross_link_vars, keyword_vars, category_vars, dfs_call>>
    /\ UNCHANGED <<anchor_call, planner_call, blog_vars>>

NextText == TruncateText

SpecText == InitText /\ [][NextText]_vars

(***************************************************************************)
(* Titles handed to _generate_anchor_candidates                            *)
(***************************************************************************)

MaxTitleWords == 4

WordHow == <<"H", "o", "w">>
WordTo == <<"t", "o">>
WordRemote == <<"R", "e", "m", "o", "t", "e">>
WordWorkComma == <<"W", "o", "r", "k", ",">>
WordGuides == <<"G", "u", "i", "d", "e", "s">>

TitleWords == {WordHow, WordTo, WordRemote, WordWorkComma, WordGuides}

TitlePunctuationOnly == <<"!", "!", "!">>
TitleSpaced == <<" ", "R", "e", "m", "o", "t", "e", " ", " ", "W", "o", "r", "k", " ">>

Titles ==
    {join(ws) : ws \in UNION {[1..n -> TitleWords] : n \in 0..MaxTitleWords}}
    \cup {TitlePunctuationOnly, TitleSpaced}

InitAnchors ==
    /\ AnchorsIdle
    /\ CrossLinkIdle
    /\ KeywordsIdle
    /\ CategoriesIdle
    /\ ClientIdle
    /\ TextIdle
    /\ PlannerIdle
    /\ BlogIdle

\* anchor_candidates = self._generate_anchor_candidates(post.title)
GenerateAnchorCandidates ==
    /\ anchor_call.op = "none"
    /\ \E t \in Titles :
          anchor_call' = [op |-> "anchors", title |-> t,
                          result |-> generate_anchor_candidates(t)]
    /\ UNCHANGED <<cross_link_vars, keyword_vars, category_vars, dfs_call,
                   text_call, planner_call, blog_vars>>

NextAnchors == GenerateAnchorCandidates

SpecAnchors == InitAnchors /\ [][NextAnchors]_vars

(***************************************************************************)
(* Topics and existing titles handed to select_best_topic                  *)
(***************************************************************************)

MaxTopics == 2
MaxExistingTitles == 2

TitleTipsForRemoteWork == <<"T", "i", "p", "s", " ", "f", "o", "r", " ", "R", "e", "m", "o", "t", "e", " ", "W", "o", "r", "k">>
TitleRemoteWorkGuide == <<"R", "e", "m", "o", "t", "e", " ", "W", "o", "r", "k", " ", "G", "u", "i", "d", "e">>
TitleBestTipsGuide == <<"B", "e", "s", "t", " ", "R", "e", "m", "o", "t", "e", " ", "W", "o", "r", "k", " ", "T", "i", "p", "s", " ", "G", "u", "i", "d", "e">>
TitleHowTo == <<"H", "o", "w", " ", "T", "o">>

Topic(t) == [title |-> t]

\* a topic the model returned without a "title" key
TopicWithoutTitle == [primary_keyword |-> KeywordRemoteWork]

TopicPool ==
    { Topic(TitleRemoteWorkTips), Topic(TitleTipsForRemoteWork),
      Topic(TitleRemoteWorkGuide), Topic(TitleBestTipsGuide),
      Topic(TitleHowTo), TopicWithoutTitle }

ExistingTitlePool == {TitleRemoteWorkTips, TitleSalaryGuide, TitleHowTo}

InitPlanner ==
    /\ PlannerIdle
    /\ CrossLinkIdle
    /\ KeywordsIdle
    /\ CategoriesIdle
    /\ ClientIdle
    /\ TextIdle
    /\ AnchorsIdle
    /\ BlogIdle

\* topic = planner.select_best_topic(topics, existing_titles)
SelectBestTopic ==
    /\ planner_call.op = "none"
    /\ \E topics \in UNION {[1..n -> TopicPool] : n \in 0..MaxTopics},
          existing_titles \in UNION {[1..n -> ExistingTitlePool] :
                                        n \in 0..MaxExistingTitles} :
          planner_call' = [op |-> "select", topics |-> topics,
                           existing_titles |-> existing_titles,
                           result |-> select_best_topic(topics, existing_titles)]
    /\ UNCHANGED <<cross_link_vars, keyword_vars, category_vars, dfs_call,
                   text_call, anchor_call, blog_vars>>

NextPlanner == SelectBestTopic

SpecPlanner == InitPlanner /\ [][NextPlanner]_vars

(***************************************************************************)
(* Cache files, clock and API answers for BlogApiClient.get_posts          *)
(***************************************************************************)

MaxClock == 5
MaxAgeHours == 2

ApiPost(id, title, content) == [id |-> id, title |-> title, content |-> content]

ApiPostsOld == <<ApiPost(1, "Remote Work Tips", "old body")>>
ApiPostsNew == <<ApiPost(1, "Remote Work Tips", "new body"),
                 ApiPost(2, "Salary Guide", "salaries")>>

ApiAnswers == {[raised |-> TRUE], [raised |-> FALSE, posts |-> ApiPostsNew]}

GarbageFile == Some([kind |-> "garbage"])

\* the cache files an earlier get_posts at time 0 left behind
CacheFilesOnDisk ==
    {save_cache([posts |-> fetch_all_posts(ApiPostsOld, c), fetched_at |-> 0,
                 total_count |-> Len(ApiPostsOld), include_content |-> c]) :
        c \in BOOLEAN}

InitBlog ==
    /\ cache_file \in {None, GarbageFile} \cup CacheFilesOnDisk
    /\ now = 0
    /\ blog_call = NoBlogCall
    /\ CrossLinkIdle
    /\ KeywordsIdle
    /\ CategoriesIdle
    /\ ClientIdle
    /\ TextIdle
    /\ AnchorsIdle
    /\ PlannerIdle

\* cache = await blog_api.get_posts(force, include_content, max_age_hours)
GetPosts ==
    /\ \E force \in BOOLEAN, include_content \in BOOLEAN,
          max_age_hours \in 0..MaxAgeHours, api \in ApiAnswers :
          LET done == get_posts(cache_file, now, force, include_content,
                                max_age_hours, api)
          IN  /\ cache_file' = done.file
              /\ blog_call' = [op |-> "get_posts", force |-> force,
                               include_content |-> include_content,
                               max_age_hours |-> max_age_hours,
                               file_before |-> cache_file, at |-> now,
                               api_called |-> done.api_called,
                               raised |-> done.raised, result |-> done.result]
    /\ UNCHANGED now
    /\ UNCHANGED <<cross_link_vars, keyword_vars, category_vars, dfs_call,
                   text_call, anchor_call, planner_call>>

\* half an hour passes
Tick ==
    /\ now < MaxClock
    /\ now' = now + 1
    /\ UNCHANGED <<cache_file, blog_call>>
    /\ UNCHANGED <<cross_link_vars, keyword_vars, category_vars, dfs_call,
                   text_call, anchor_call, planner_call>>

NextBlog == GetPosts \/ Tick

SpecBlog == InitBlog /\ [][NextBlog]_vars

(***************************************************************************)
(* Corpora with posts whose title holds no word character; their tags make *)
(* them relevant to the article                                            *)
(***************************************************************************)

TitleBlank == <<" ">>
UrlPunctuation == <<"/", "b", "a", "n", "g">>
UrlBlank == <<"/", "b", "l", "a", "n", "k">>

TaggedPost(title, url, tags) == [title |-> title, url |-> url, tags |-> tags]

PunctuationPool ==
    { TaggedPost(TitlePunctuationOnly, UrlPunctuation, <<KeywordRemoteWork>>),
      TaggedPost(TitleBlank, UrlBlank, <<KeywordRemoteWork>>),
      Post(TitleRemoteWorkTips, UrlTips) }

InitPunctuation ==
    /\ linker = [links_per_1k_words |-> DefaultLinksPer1kWordsTenths,
                 min_similarity_score |-> DefaultMinSimilarityScore]
    /\ \E body \in {BodyPlain, BodyLinked, BodyTwice}, wc \in WordCounts :
          article = [title |-> TitleRemoteWork,
                     primary_keyword |-> KeywordRemoteWork,
                     secondary_keywords |-> << >>,
                     word_count |-> wc,
                     content |-> body,
                     internal_links |-> << >>]
    /\ existing_posts \in UNION {[1..n -> PunctuationPool] : n \in 0..MaxPosts}
    /\ calls = 0
    /\ last = NoCall
    /\ suggest = NoSuggest
    /\ KeywordsIdle
    /\ CategoriesIdle
    /\ ClientIdle
    /\ TextIdle
    /\ AnchorsIdle
    /\ PlannerIdle
    /\ BlogIdle

SpecPunctuation == InitPunctuation /\ [][Next]_vars

(***************************************************************************)
(* Markdown link spans, as the pattern \[([^\]]+)\]\(([^)]+)\) of          *)
(* analyze_link_distribution finds them                                    *)
(***************************************************************************)

\* The link whose "[" is at 1-based index i, or the empty set: text is the
\* interval of the visible text, url the interval of the destination.
link_at(c, i) ==
    IF c[i] # "[" THEN {}
    ELSE LET closes == {j \in (i + 1)..Len(c) : c[j] = "]"}
         IN  IF closes = {} THEN {}
             ELSE LET j == Min(closes)
                      ends == {k \in (j + 2)..Len(c) : c[k] = ")"}
                  IN  IF j = i + 1 \/ j = Len(c) \/ c[j + 1] # "(" \/ ends = {}
                      THEN {}
                      ELSE LET k == Min(ends)
                           IN  IF k = j + 2 THEN {}
                               ELSE {[text |-> (i + 1)..(j - 1),
                                      url |-> (j + 2)..(k - 1), close |-> k]}

\* re.findall: leftmost, non-overlapping matches
RECURSIVE links_from(_, _)
links_from(c, i) ==
    IF i > Len(c) THEN {}
    ELSE LET m == link_at(c, i)
         IN  IF m = {} THEN links_from(c, i + 1)
             ELSE m \cup links_from(c, (CHOOSE x \in m : TRUE).close + 1)

markdown_links(c) == links_from(c, 1)

\* 1-based indices of the characters inside the text or the url of a link of c
LinkedChars(c) == UNION {m.text \cup m.url : m \in markdown_links(c)}

\* where the character at 1-based index p of step.before is after the step
ShiftChar(p, step) ==
    IF p <= step.start THEN p
    ELSE IF p <= step.stop THEN p + 1
    ELSE p + Len(step.url) + 4

\* no step of steps[k..] matches a span that contains one of the characters prot
RECURSIVE StepsAvoid(_, _, _)
StepsAvoid(steps, k, prot) ==
    IF k > Len(steps) THEN TRUE
    ELSE /\ ((steps[k].start + 1)..steps[k].stop) \cap prot = {}
         /\ StepsAvoid(steps, k + 1, {ShiftChar(p, steps[k]) : p \in prot})

\* s occurs in c as a contiguous substring
Occurs(s, c) == \E i \in 0..(Len(c) - Len(s)) : Slice(c, i, i + Len(s)) = s

\* c holds a Markdown link whose destination is url
LinksTo(c, url) == Occurs(<<"]", "(">> \o url \o <<")">>, c)

Called == calls >= 1 /\ ~last.returned_early

(***************************************************************************)
(* Claims about CrossLinkerService                                         *)
(***************************************************************************)

\* C1: the links inserted by one call of add_cross_links have pairwise
\* distinct destination URLs, also when the corpus holds a post twice.
C1_DistinctUrls ==
    Called =>
        \A i, j \in 1..Len(article.internal_links) :
            i # j => article.internal_links[i].url # article.internal_links[j].url

\* C2: no link inserted by add_cross_links matches a span that overlaps the
\* visible text or the URL of a Markdown link already present in the body
\* the call was given.
C2_NotInsideExistingLink ==
    Called => StepsAvoid(last.steps, 1, LinkedChars(last.content_before))

\* C3: a post whose title equals the article title case-insensitively is
\* never among the relevant posts and never appears in internal_links.
C3_NeverLinksToItself ==
    Called =>
        /\ \A i \in 1..Len(last.relevant_posts) :
              lower(last.relevant_posts[i].title) # lower(article.title)
        /\ \A i \in 1..Len(article.internal_links) :
              lower(article.internal_links[i].title) # lower(article.title)

\* C3 witness: the corpus holds a post titled like the article in another
\* letter case, its title occurs in the body, and the call linked another post.
C3_Witness ==
    /\ Called
    /\ \E i \in 1..Len(existing_posts) :
          /\ lower(existing_posts[i].title) = lower(article.title)
          /\ existing_posts[i].title # article.title
          /\ Occurs(lower(existing_posts[i].title), lower(last.content_before))
    /\ Len(article.internal_links) >= 1

\* C4: a second add_cross_links on its own output with the same corpus
\* inserts no link to a URL the content already links to.
C4_NoDoubleLinkOnSecondCall ==
    (calls >= 2 /\ ~last.returned_early) =>
        \A i \in 1..Len(article.internal_links) :
            ~LinksTo(last.content_before, article.internal_links[i].url)

\* Python's round(n / d) for integers n >= 0, d > 0: ties go to the even value
RoundHalfEven(n, d) ==
    LET q == n \div d
        r == n % d
    IN  IF 2 * r < d THEN q
        ELSE IF 2 * r > d THEN q + 1
        ELSE IF q % 2 = 0 THEN q ELSE q + 1

\* C5 as stated: target_links = max(1, round((word_count / 1000) * rate)).
C5_TargetRounds ==
    Called =>
        LET rounded == RoundHalfEven(
                article.word_count * linker.links_per_1k_words, 10000)
        IN  last.target_links = IF rounded >= 1 THEN rounded ELSE 1

\* C5 amended: target_links = max(1, int((word_count / 1000) * rate)), the
\* product truncated, not rounded; word_count = 0 gives 1.
C5_TargetTruncates ==
    Called =>
        LET x == article.word_count * linker.links_per_1k_words
            t == last.target_links
        IN  /\ (x < 10000 => t = 1)
            /\ (x >= 10000 => 10000 * t <= x /\ x < 10000 * (t + 1))
            /\ (article.word_count = 0 => t = 1)

\* C5 witness: a word count whose product rounds up but truncates down,
\* and the zero word count.
C5_Witness ==
    /\ Called
    /\ article.word_count = 500
    /\ linker.links_per_1k_words = DefaultLinksPer1kWordsTenths
    /\ last.target_links = 1

\* The 1-based indices of the posts of the last call that are not the article
\* itself and score at least min_similarity_score.
Eligible ==
    {i \in 1..Len(last.posts) :
        /\ lower(last.posts[i].title) # lower(article.title)
        /\ RatGeq(post_score(article, last.posts[i]),
                  <<linker.min_similarity_score, 1>>)}

\* the number of eligible posts ranked before post i: a higher score, or the
\* same score and an earlier place in the input
RankOf(i) ==
    Cardinality({j \in Eligible :
        LET si == post_score(article, last.posts[i])
            sj == post_score(article, last.posts[j])
        IN  \/ ~RatGeq(si, sj)
            \/ RatEq(si, sj) /\ j < i})

\* C6: add_cross_links inserts at most target_links links, each to one of the
\* first target_links posts of the ranking (score descending, ties in input
\* order) of the non-self posts scoring at least min_similarity_score.
C6_OnlyTopTargetLinked ==
    Called =>
        /\ Len(article.internal_links) <= last.target_links
        /\ \A k \in 1..Len(article.internal_links) :
              \E i \in Eligible :
                  /\ RankOf(i) < last.target_links
                  /\ last.posts[i].title = article.internal_links[k].title
                  /\ last.posts[i].url = article.internal_links[k].url

\* C6 witness: more posts are eligible than the target allows, a post below
\* the threshold has an anchor in the body, and target_links links went in.
C6_Witness ==
    /\ Called
    /\ Cardinality(Eligible) > last.target_links
    /\ Len(article.internal_links) = last.target_links
    /\ \E i \in 1..Len(last.posts) :
          /\ ~RatGeq(post_score(article, last.posts[i]),
                     <<linker.min_similarity_score, 1>>)
          /\ \E a \in {generate_anchor_candidates(last.posts[i].title)[n] :
                         n \in 1..Len(generate_anchor_candidates(last.posts[i].title))} :
                re_search(a, last.content_before) >= 0

\* C7: on an empty corpus add_cross_links leaves the content unchanged and
\* internal_links empty.
C7_EmptyCorpusNoOp ==
    (calls >= 1 /\ Len(last.posts) = 0) =>
        /\ article.content = last.content_before
        /\ article.internal_links = << >>

\* C7 witness: add_cross_links was called with an empty corpus on a body
\* that holds text.
C7_Witness ==
    /\ calls >= 1
    /\ Len(last.posts) = 0
    /\ last.returned_early
    /\ Len(article.content) > 0

(***************************************************************************)
(* Claims about KeywordResearchService                                     *)
(***************************************************************************)

\* the thresholds a filter call applies: the argument, or the service's
\* value when the argument is None
EffectiveMinVolume ==
    IF kw_call.min_volume = None THEN kw_service.min_volume
    ELSE kw_call.min_volume[1]

EffectiveMaxKd ==
    IF kw_call.max_kd = None THEN kw_service.max_kd ELSE kw_call.max_kd[1]

Passes(kw) ==
    /\ kw.search_volume >= EffectiveMinVolume
    /\ kw.keyword_difficulty <= EffectiveMaxKd

\* how many times x occurs in the sequence xs
Count(xs, x) == Cardinality({i \in 1..Len(xs) : xs[i] = x})

Range(xs) == {xs[i] : i \in 1..Len(xs)}

\* ys is xs with some elements left out, the others in their order
RECURSIVE IsSubsequence(_, _)
IsSubsequence(ys, xs) ==
    IF Len(ys) = 0 THEN TRUE
    ELSE IF Len(xs) = 0 THEN FALSE
    ELSE IF ys[1] = xs[1] THEN IsSubsequence(Tail(ys), Tail(xs))
    ELSE IsSubsequence(ys, Tail(xs))

ScoreGeq(a, b) ==
    a.search_volume * (b.keyword_difficulty + 1)
        >= b.search_volume * (a.keyword_difficulty + 1)

ScoreEq(a, b) == ScoreGeq(a, b) /\ ScoreGeq(b, a)

C10_FilterIdempotent ==
    kw_call.op = "filter" =>
        filter_keywords(kw_service, kw_call.result, kw_call.min_volume,
                        kw_call.max_kd) = kw_call.result

\* C10 witness: the first filter call dropped a candidate and kept another.
C10_Witness ==
    /\ kw_call.op = "filter"
    /\ Len(kw_call.result) >= 1
    /\ Len(kw_call.result) < Len(kw_call.input)
    /\ filter_keywords(kw_service, kw_call.result, kw_call.min_volume,
                       kw_call.max_kd) = kw_call.result


\* the threshold a filter call with argument arg applies
Applied(arg, default) == IF arg = None THEN default ELSE arg[1]

\* C11: widening the thresholds of a filter call (a lower min_volume, 0
\* included, a higher max_difficulty) never removes a candidate it returned.
C11_FilterMonotonic ==
    kw_call.op = "filter" =>
        \A v \in MinVolumeArgs, d \in MaxKdArgs :
            ( /\ Applied(v, kw_service.min_volume) <= EffectiveMinVolume
              /\ Applied(d, kw_service.max_kd) >= EffectiveMaxKd )
            => LET wider == filter_keywords(kw_service, kw_call.input, v, d)
               IN  \A kw \in Range(kw_call.result) :
                       Count(wider, kw) >= Count(kw_call.result, kw)

\* C11 witness: a call with min_volume 2000 returned a candidate, and the
\* call with min_volume 0 on the same list returns that one and more.
C11_Witness ==
    /\ kw_call.op = "filter"
    /\ kw_call.min_volume = Some(2000)
    /\ Len(kw_call.result) >= 1
    /\ LET wider == filter_keywords(kw_service, kw_call.input, Some(0),
                                    kw_call.max_kd)
       IN  /\ Len(wider) > Len(kw_call.result)
           /\ Range(kw_call.result) \subseteq Range(wider)

\* the thresholds of the call lie outside min_volume >= 0, 0 <= max_kd <= 100
ThresholdOutOfRange ==
    \/ EffectiveMinVolume < 0
    \/ EffectiveMaxKd < 0
    \/ EffectiveMaxKd > 100

\* C12: a filter call with min_volume < 0 or max_difficulty outside 0..100
\* ends in an InvalidThreshold error and returns no filtered list.
C12_InvalidThresholdRaised ==
    (kw_call.op = "filter" /\ ThresholdOutOfRange) =>
        /\ kw_call.raised = "InvalidThreshold"
        /\ kw_call.result = << >>


\* token sets and score of the article text and the text of post i of the
\* last call
ArticleTokens == TokenSet(article_text(article))
PostTokens(i) == TokenSet(post_text(last.posts[i]))
ScoreOf(i) == post_score(article, last.posts[i])

\* C13 as stated: the score of every post is the number of common tokens over
\* the number of tokens in the union, times 100, and is below 100 whenever the
\* token sets differ.
C13_ScoreIsOverlapRatio ==
    calls >= 1 =>
        \A i \in 1..Len(last.posts) :
            /\ RatEq(ScoreOf(i),
                     <<100 * Cardinality(ArticleTokens \cap PostTokens(i)),
                       Cardinality(ArticleTokens \cup PostTokens(i))>>)
            /\ (ArticleTokens # PostTokens(i) => ~RatGeq(ScoreOf(i), <<100, 1>>))

\* C13 amended: the score lies in 0..100 and is 100 exactly when the two
\* token sets share a token and one of them contains the other.
C13_ScoreIsTokenSetRatio ==
    calls >= 1 =>
        \A i \in 1..Len(last.posts) :
            /\ RatGeq(ScoreOf(i), <<0, 1>>)
            /\ RatGeq(<<100, 1>>, ScoreOf(i))
            /\ RatEq(ScoreOf(i), <<100, 1>>)
                 <=> ( /\ ArticleTokens \cap PostTokens(i) # {}
                       /\ \/ ArticleTokens \subseteq PostTokens(i)
                          \/ PostTokens(i) \subseteq ArticleTokens )

\* C13 witness: one post of the call has more tokens than the article text
\* and scores 100, another overlaps it without containment and scores
\* strictly between 0 and 100.
C13_Witness ==
    /\ calls >= 1
    /\ \E i, j \in 1..Len(last.posts) :
          /\ ArticleTokens # PostTokens(i)
          /\ ArticleTokens \subseteq PostTokens(i)
          /\ RatEq(ScoreOf(i), <<100, 1>>)
          /\ ArticleTokens \cap PostTokens(j) # {}
          /\ ~(ArticleTokens \subseteq PostTokens(j))
          /\ ~(PostTokens(j) \subseteq ArticleTokens)
          /\ ~RatGeq(ScoreOf(j), <<100, 1>>)
          /\ ~RatGeq(<<0, 1>>, ScoreOf(j))


\* C14: suggest_link_opportunities leaves the article's content and
\* internal_links and the post list as they were before the call.
C14_SuggestChangesNothing ==
    suggest.done =>
        /\ suggest.article_after.content = suggest.article_before.content
        /\ suggest.article_after.internal_links
               = suggest.article_before.internal_links
        /\ suggest.article_after = suggest.article_before
        /\ suggest.posts_after = suggest.posts_before

\* C14 witness: the call returned a suggestion whose anchor is in the
\* content, for an article that holds no links.
C14_Witness ==
    /\ suggest.done
    /\ Len(suggest.suggestions) >= 1
    /\ Len(suggest.posts_before) >= 1
    /\ suggest.article_before.internal_links = << >>
    /\ str_contains(lower(suggest.suggestions[1].suggested_anchor),
                    lower(suggest.article_after.content))
    /\ markdown_links(suggest.article_after.content) = {}

\* the call before the last one was an add_category that succeeded
AfterSuccessfulAdd == cat_call.prev.op = "add" /\ cat_call.prev.raised = "none"

\* C15: an add_category that follows a successful add_category of the same
\* name, in any letter case, raises ValueError and leaves the stored list
\* unchanged, also for names with spaces.
C15_DuplicateAddRejected ==
    ( /\ cat_call.op = "add"
      /\ AfterSuccessfulAdd
      /\ lower(cat_call.name) = lower(cat_call.prev.name) )
    => /\ cat_call.raised = "ValueError"
       /\ categories = cat_call.before

\* C16: after a successful add_category(name), category_exists(name) is true
\* and get_category(name) returns the category that was added.
C16_AddedCategoryIsFound ==
    ( /\ cat_call.op = "get"
      /\ AfterSuccessfulAdd
      /\ cat_call.name = cat_call.prev.name )
    => /\ cat_call.result # None
       /\ cat_call.result = cat_call.prev.result

ClientOperations ==
    {"get_search_volume", "get_keyword_ideas", "get_bulk_keyword_difficulty",
     "get_keyword_suggestions"}

\* C17: the payload of a get_search_volume, get_keyword_ideas,
\* get_bulk_keyword_difficulty or get_keyword_suggestions request holds no
\* location_code and no location_name field, and holds language_code.
C17_NoLocationInPayload ==
    dfs_call.op \in ClientOperations =>
        /\ "location_code" \notin DOMAIN dfs_call.payload
        /\ "location_name" \notin DOMAIN dfs_call.payload
        /\ "language_code" \in DOMAIN dfs_call.payload

\* the reply makes _post_json raise a DataForSEOError whose first task error
\* has status 40501
InvalidLocationError ==
    /\ dfs_call.reply.kind = "json"
    /\ LET errors == extract_task_errors(dfs_call.reply.data.tasks)
       IN  /\ Len(errors) >= 1
           /\ errors[1].status_code = Some(InvalidFieldStatus)

\* C18: when the API call behind get_bulk_keyword_difficulty fails with an
\* invalid location field (task status 40501), the method raises nothing and
\* returns the empty map.
C18_InvalidLocationGivesEmptyMap ==
    (dfs_call.op = "get_bulk_keyword_difficulty" /\ InvalidLocationError) =>
        /\ dfs_call.error = NoError
        /\ dfs_call.result = Some(<< >>)

\* C19: truncate_text returns at most max_length characters, suffix
\* included, and returns a text of at most max_length characters unchanged.
C19_TruncatedWithinMaxLength ==
    text_call.op = "truncate" =>
        /\ Len(text_call.result) <= text_call.max_length
        /\ (Len(text_call.text) <= text_call.max_length
                => text_call.result = text_call.text)

\* the posts of the working pool of the last call that have an anchor
\* matching in the body the call was given
PoolPostsWithAnchor ==
    {i \in 1..Len(last.relevant_posts) :
        Len(insert_links(last.content_before,
                         <<last.relevant_posts[i]>>).added_links) = 1}

\* C20: when the working pool of target_links + 2 posts holds target_links
\* posts with a matching anchor, target_links links are inserted, lower ranked
\* posts of the pool standing in for higher ranked ones without an anchor.
C20_OversampleFillsTarget ==
    (Called /\ Cardinality(PoolPostsWithAnchor) >= last.target_links) =>
        Len(article.internal_links) = last.target_links

(***************************************************************************)
(* Claims about the insertion loop of _insert_links                        *)
(***************************************************************************)

\* the posts handed to _insert_links by the last call
SelectedPosts == Take(last.relevant_posts, last.target_links)

\* the content after the k-th insertion of the last call
ContentAfter(k) ==
    IF k < Len(last.steps) THEN last.steps[k + 1].before ELSE article.content

\* the anchor, in either letter case, occurs in c at 0-based offset i with no
\* "[" or "(" right before it and no "]" or ")" right after it
EligibleAt(anchor, c, i) ==
    /\ i + Len(anchor) <= Len(c)
    /\ lower(Slice(c, i, i + Len(anchor))) = lower(anchor)
    /\ (i > 0 => c[i] # "[" /\ c[i] # "(")
    /\ (i + Len(anchor) < Len(c) =>
            c[i + Len(anchor) + 1] # "]" /\ c[i + Len(anchor) + 1] # ")")

EligibleOffsets(anchor, c) == {i \in 0..Len(c) : EligibleAt(anchor, c, i)}

\* the anchor occurs in c at an offset that is not eligible
IneligibleOffsets(anchor, c) ==
    {i \in 0..(Len(c) - Len(anchor)) :
        /\ lower(Slice(c, i, i + Len(anchor))) = lower(anchor)
        /\ ~EligibleAt(anchor, c, i)}

\* the posts from index p on are treated as C21 says, the first of them with
\* the content c and the insertions from the k-th on
RECURSIVE PriorityOrderFrom(_, _, _)
PriorityOrderFrom(p, k, c) ==
    IF p > Len(SelectedPosts) THEN k = Len(last.steps) + 1
    ELSE LET anchors == generate_anchor_candidates(SelectedPosts[p].title)
             winners == {j \in 1..Len(anchors) :
                            EligibleOffsets(anchors[j], c) # {}}
         IN  IF winners = {} THEN PriorityOrderFrom(p + 1, k, c)
             ELSE LET anchor == anchors[Min(winners)]
                  IN  /\ k <= Len(last.steps)
                      /\ last.steps[k].before = c
                      /\ last.steps[k].url = SelectedPosts[p].url
                      /\ last.steps[k].start = Min(EligibleOffsets(anchor, c))
                      /\ last.steps[k].stop = last.steps[k].start + Len(anchor)
                      /\ PriorityOrderFrom(p + 1, k + 1, ContentAfter(k))

\* C21: for each selected post the first anchor candidate, in priority
\* order, with an eligible occurrence is linked at its leftmost eligible
\* occurrence, whatever ineligible occurrences come before it, and a post
\* gets at most one link.
C21_FirstEligibleAnchorWins ==
    Called => PriorityOrderFrom(1, 1, last.content_before)

\* C21 witness: an insertion was made at an occurrence of the anchor that
\* comes after an ineligible occurrence of the same anchor.
C21_Witness ==
    /\ Called
    /\ \E k \in 1..Len(last.steps) :
          LET step == last.steps[k]
              anchor == Slice(step.before, step.start, step.stop)
          IN  \E i \in IneligibleOffsets(anchor, step.before) : i < step.start

\* C22: the content after an insertion is the content before it with the
\* matched span s replaced by [s](url), s in the casing it has in the body,
\* and the record of the link holds s as its anchor text.
C22_OnlyMatchedSpanReplaced ==
    Called =>
        \A k \in 1..Len(last.steps) :
            LET step == last.steps[k]
                s == Slice(step.before, step.start, step.stop)
            IN  /\ ContentAfter(k) =
                       Slice(step.before, 0, step.start)
                       \o <<"[">> \o s \o <<"]", "(">> \o step.url \o <<")">>
                       \o Slice(step.before, step.stop, Len(step.before))
                /\ article.internal_links[k].anchor_text = s

\* C22 witness: an insertion whose matched text is in lower case while the
\* post title, and so the anchor candidate, is capitalised.
C22_Witness ==
    /\ Called
    /\ \E k \in 1..Len(last.steps) :
          LET step == last.steps[k]
              s == Slice(step.before, step.start, step.stop)
          IN  /\ s = lower(s)
              /\ Len(s) > 0
              /\ \E p \in 1..Len(SelectedPosts) :
                    \E j \in 1..Len(generate_anchor_candidates(SelectedPosts[p].title)) :
                        LET a == generate_anchor_candidates(SelectedPosts[p].title)[j]
                        IN  lower(a) = s /\ a # s

\* the post behind each record of internal_links
LinkedPosts ==
    [k \in 1..Len(article.internal_links) |->
        [title |-> article.internal_links[k].title,
         url |-> article.internal_links[k].url]]

SelectedTitlesAndUrls ==
    [p \in 1..Len(SelectedPosts) |->
        [title |-> SelectedPosts[p].title, url |-> SelectedPosts[p].url]]

\* C23: after add_cross_links on a non-empty corpus internal_links holds one
\* record {title, url, anchor_text} for each insertion of the call, the k-th
\* record for the k-th insertion, and the records follow the order in which
\* the posts were selected, not the order of the links in the text.
C23_RecordsInSelectionOrder ==
    Called =>
        /\ Len(article.internal_links) = Len(last.steps)
        /\ \A k \in 1..Len(last.steps) :
              /\ DOMAIN article.internal_links[k] = {"title", "url", "anchor_text"}
              /\ article.internal_links[k].url = last.steps[k].url
              /\ article.internal_links[k].anchor_text =
                     Slice(last.steps[k].before, last.steps[k].start,
                           last.steps[k].stop)
        /\ IsSubsequence(LinkedPosts, SelectedTitlesAndUrls)

\* C23 witness: two links were inserted and the one recorded second stands
\* earlier in the text than the one recorded first.
C23_Witness ==
    /\ Called
    /\ \E k, l \in 1..Len(last.steps) :
          /\ k < l
          /\ last.steps[l].stop <= last.steps[k].start
          /\ article.internal_links[k].url # article.internal_links[l].url

(***************************************************************************)
(* Claims about _generate_anchor_candidates                                *)
(***************************************************************************)

StopWords ==
    { <<"h", "o", "w">>, <<"t", "o">>, <<"t", "h", "e">>, <<"a">>, <<"a", "n">>,
      <<"w", "h", "a", "t">>, <<"w", "h", "y">>, <<"w", "h", "e", "n">>,
      <<"w", "h", "e", "r", "e">> }

\* the windows of n consecutive words, left to right
Windows(words, n) ==
    [i \in 1..(Len(words) - n + 1) |-> SubSeq(words, i, i + n - 1)]

\* the windows whose first word is not a stop word, as phrases
KeptWindows(words, n) ==
    LET FirstWordKept(w) == lower(w[1]) \notin StopWords
        kept == SelectSeq(Windows(words, n), FirstWordKept)
    IN  [i \in 1..Len(kept) |-> join(kept[i])]

LongWords(words) ==
    LET Long(w) == Len(w) > 5
    IN  SelectSeq(words, Long)

InsertionFor(post, c) ==
    try_anchors([content |-> c, added_links |-> << >>, steps |-> << >>],
                post, generate_anchor_candidates(post.title))

\* the anchors suggested for the post
SuggestedAnchors(post) ==
    {lower(suggest.suggestions[i].suggested_anchor) :
        i \in {j \in 1..Len(suggest.suggestions) :
                  /\ suggest.suggestions[j].post_title = post.title
                  /\ suggest.suggestions[j].post_url = post.url}}

\* the anchors _insert_links would link for the post on the unmodified body
InsertedAnchors(post) ==
    LET done == InsertionFor(post, suggest.article_before.content)
    IN  {lower(done.added_links[i].anchor_text) : i \in 1..Len(done.added_links)}

\* C25: for every post that is not the article itself, the anchor
\* suggest_link_opportunities proposes is the anchor the insertion loop
\* would link for that post on the same unmodified body, and a post gets a
\* suggestion exactly when the insertion loop would give it a link.
C25_SuggestPreviewsInsertion ==
    suggest.done =>
        \A i \in 1..Len(suggest.posts_before) :
            LET post == suggest.posts_before[i]
            IN  lower(post.title) # lower(suggest.article_before.title) =>
                    SuggestedAnchors(post) = InsertedAnchors(post)

(***************************************************************************)
(* Claims about ContentPlanner.select_best_topic                           *)
(***************************************************************************)

\* the words of a title, lower-cased, the common words left out
SignificantWords(t) ==
    {w \in {split(lower(t))[i] : i \in 1..Len(split(lower(t)))} :
        w \notin common_words}

\* word-set Jaccard similarity above 0.6
TooSimilar(t1, t2) ==
    /\ SignificantWords(t1) \cup SignificantWords(t2) # {}
    /\ 10 * Cardinality(SignificantWords(t1) \cap SignificantWords(t2))
           > 6 * Cardinality(SignificantWords(t1) \cup SignificantWords(t2))

\* the topic's title is too similar to an existing title
Duplicates(topic, existing_titles) ==
    /\ "title" \in DOMAIN topic
    /\ \E i \in 1..Len(existing_titles) : TooSimilar(topic.title, existing_titles[i])

\* C26: select_best_topic never returns a topic whose title is too similar to
\* an existing title; what it returns is the first topic, in list order,
\* that duplicates no existing title.
C26_NeverReturnsDuplicate ==
    (planner_call.op = "select" /\ planner_call.result # None) =>
        /\ ~Duplicates(planner_call.result[1], planner_call.existing_titles)
        /\ \E i \in 1..Len(planner_call.topics) :
              /\ planner_call.topics[i] = planner_call.result[1]
              /\ \A j \in 1..(i - 1) :
                    Duplicates(planner_call.topics[j], planner_call.existing_titles)

(***************************************************************************)
(* Claims about BlogApiClient.get_posts                                    *)
(***************************************************************************)

\* the cache the file held when get_posts was called, if it could be parsed
CacheBefore == load_cache(blog_call.file_before)

\* the conditions under which C27 says the cache on disk is returned
CacheIsServed ==
    /\ ~blog_call.force
    /\ CacheBefore # None
    /\ (blog_call.at - CacheBefore[1].fetched_at) * SecondsPerTick
           < blog_call.max_age_hours * SecondsPerHour
    /\ ~(blog_call.include_content /\ ~CacheBefore[1].include_content)

\* the call fetched the posts, wrote them to the cache file and returned them
FetchedAndSaved ==
    /\ blog_call.api_called
    /\ blog_call.result # None
    /\ blog_call.result[1].include_content = blog_call.include_content
    /\ blog_call.result[1].fetched_at = blog_call.at
    /\ \E api \in ApiAnswers :
          /\ ~api.raised
          /\ blog_call.result[1].posts =
                 fetch_all_posts(api.posts, blog_call.include_content)
    /\ load_cache(cache_file) = blog_call.result

\* C27 as stated: get_posts returns the cache on disk without calling the
\* API exactly when force is false, the file parses, the cache is strictly
\* younger than max_age_hours and content is not asked of a cache without
\* content; in every other case it fetches, overwrites the cache file and
\* returns a cache whose include_content is the requested flag.
C27_EveryOtherCaseOverwrites ==
    blog_call.op = "get_posts" =>
        IF CacheIsServed
        THEN /\ ~blog_call.api_called
             /\ blog_call.result = CacheBefore
             /\ cache_file = blog_call.file_before
        ELSE FetchedAndSaved

\* C27 amended: as above, but in the other cases the API is called and the
\* file is overwritten and the fresh cache returned only when the request
\* answers; when it fails the error is raised and the file stays as it was.
C27_CacheServedExactlyWhenValid ==
    blog_call.op = "get_posts" =>
        IF CacheIsServed
        THEN /\ ~blog_call.api_called
             /\ blog_call.result = CacheBefore
             /\ cache_file = blog_call.file_before
        ELSE /\ blog_call.api_called
             /\ blog_call.raised =>
                   /\ blog_call.result = None
                   /\ cache_file = blog_call.file_before
             /\ ~blog_call.raised => FetchedAndSaved

\* C27 witness: a call without force on a cache with content whose age is
\* exactly max_age_hours: the API is called and the file is overwritten.
C27_Witness ==
    /\ blog_call.op = "get_posts"
    /\ ~blog_call.force
    /\ CacheBefore # None
    /\ CacheBefore[1].include_content
    /\ blog_call.max_age_hours > 0
    /\ (blog_call.at - CacheBefore[1].fetched_at) * SecondsPerTick
           = blog_call.max_age_hours * SecondsPerHour
    /\ blog_call.api_called
    /\ ~blog_call.raised
    /\ cache_file # blog_call.file_before

(***************************************************************************)
(* Claims about the links left in the returned content                     *)
(***************************************************************************)

\* the markdown of the k-th record of internal_links
LinkMarkdown(k) ==
    <<"[">> \o article.internal_links[k].anchor_text \o <<"]", "(">>
    \o article.internal_links[k].url \o <<")">>

\* the 0-based span [start, stop) the k-th inserted link takes in the
\* content right after its insertion
InsertedSpan(k) ==
    [start |-> last.steps[k].start,
     stop |-> last.steps[k].stop + 4 + Len(last.steps[k].url)]

\* C28: links inserted earlier in a call are left alone by later insertions:
\* every record of internal_links stands verbatim as [anchor_text](url) in
\* the returned content, and the insertion that follows a link never matches
\* inside that link's visible text or URL.
C28_EarlierLinksIntact ==
    Called =>
        /\ \A k \in 1..Len(article.internal_links) :
              Occurs(LinkMarkdown(k), article.content)
        /\ \A k \in 1..(Len(last.steps) - 1) :
              \/ last.steps[k + 1].stop <= InsertedSpan(k).start
              \/ last.steps[k + 1].start >= InsertedSpan(k).stop

\* C29: every link add_cross_links inserts has a visible text of at least
\* one character, also for post titles made of punctuation or whitespace
\* only: no [](url) is inserted.
C29_AnchorTextNeverEmpty ==
    Called =>
        /\ \A k \in 1..Len(last.steps) : last.steps[k].stop > last.steps[k].start
        /\ \A k \in 1..Len(article.internal_links) :
              Len(article.internal_links[k].anchor_text) > 0

\* C30: run_original_workflow(min_volume=m, max_kd=k) keeps exactly the
\* keywords that filter_keywords(keywords, min_volume=m, max_kd=k) keeps,
\* for every m and k the caller supplies, 0 included.
C30_CallerThresholdsOverride ==
    kw_call.op = "workflow" =>
        kw_call.result = filter_keywords(kw_service, kw_call.input,
                                         kw_call.min_volume, kw_call.max_kd)

=============================================================================
